---- MODULE Spec2Model ----
(***************************************************************************)
(* Model of the DFSM frontend: the Tag Search service and store            *)
(* (modules/tagSearch/service.ts, modules/tagSearch/store.ts), the         *)
(* transport error normalisation (piwebapi/client.ts, domain/errors.ts)    *)
(* and the batch-based entity mappers (piwebapi/dataframes.ts,             *)
(* piwebapi/columns.ts, piwebapi/userelements.ts).                         *)
(*                                                                         *)
(* The JavaScript event loop is modelled explicitly: every user call,      *)
(* timer callback and network completion is a macrotask (one action), and  *)
(* promise reactions are jobs of the microtask queue, which is drained     *)
(* before the next macrotask may run.                                      *)
(***************************************************************************)
EXTENDS Integers, Sequences, FiniteSets, TLC

VARIABLES
    \* ---- Tag Search service instance (service.ts) ----
    enableCache,      \* mergedConfig.enableCache
    now,              \* Date.now()
    debounceTimer,    \* let debounceTimer: 0 is null, else the handle (= search id)
    abortController,  \* let abortController: 0 is null, else the owning search id
    pendingResolve,   \* let pendingResolve: 0 is null, else the search id whose resolve it is
    cache,            \* const cache = new Map(): lower-cased query -> entry
    searches,         \* one record per call of service.search, in call order
    calls,            \* the calls of apiSearchTags, in order
    microtasks,       \* the promise-job queue of the event loop
    \* ---- Tag Search store (store.ts) ----
    isOpen, query, results, status, error, hasMore, selectedIndex,
    context,          \* const context: the callbacks and options of the session
    invoked,          \* the calls of the session's callbacks so far, in order
    \* ---- auth store (stores/auth.ts) and initializeAuth (services/auth.ts) ----
    authStore,        \* user, loading, error (and the user element's WebId)
    initAuth,         \* the call of initializeAuth in progress: its position
    \* ---- callers of getOrCreateUserElement that run at the same time ----
    racers,           \* per caller: its call, the requests it sent, what existed
    \* ---- entity mappers (piwebapi/*.ts) and the AF backend ----
    af,               \* the element/attribute store behind PI Web API
    op,               \* the mapper call in progress: arguments, position, locals
    requests,         \* the requests that call has sent so far
    nOps,             \* mapper calls started
    history,          \* the finished mapper calls, each with the store it left
    cachedRootWebId   \* afroot.ts: let cachedRootWebId (0 is null)

svcVars   == <<enableCache, now, debounceTimer, abortController, pendingResolve,
               cache, searches, calls, microtasks>>
tagSearchVars == <<isOpen, query, results, status, error, hasMore, selectedIndex,
                   context, invoked>>
authVars  == <<authStore, initAuth>>
raceVars  == <<racers>>
storeVars == <<tagSearchVars, authVars, raceVars>>
mapVars   == <<af, op, requests, nOps, history, cachedRootWebId>>
vars      == <<svcVars, storeVars, mapVars>>

----------------------------------------------------------------------------
\* Bounds of the model
MaxSearches == 3      \* direct calls of service.search in one behaviour
MaxStoreSearches == 2 \* searches the store delegates in one behaviour
Limit       == 2      \* configured result limit of the service instance
TickMs      == 30000  \* granularity of the clock
MaxNow      == 60000  \* the clock stops here
MaxOps      == 1      \* mapper calls in one behaviour
MaxInvoked  == 1      \* calls of the session's callbacks in one behaviour
MaxAuthCalls == 2     \* calls of initializeAuth in one behaviour
MaxRacers   == 2      \* callers of getOrCreateUserElement at the same time

\* Program constants
CACHE_TTL       == 60000
minChars        == 2
SearchTagsMin   == 2   \* query.length < 2 in searchTags

----------------------------------------------------------------------------
\* Strings are sequences of characters so that case conversion is computed.
LowerChar(c) ==
    CASE c = "A" -> "a" [] c = "B" -> "b" [] c = "C" -> "c" [] c = "D" -> "d"
      [] OTHER -> c

UpperChar(c) ==
    CASE c = "a" -> "A" [] c = "b" -> "B" [] c = "c" -> "C" [] c = "d" -> "D"
      [] OTHER -> c

toLowerCase(s) == [i \in DOMAIN s |-> LowerChar(s[i])]
toUpperCase(s) == [i \in DOMAIN s |-> UpperChar(s[i])]

Queries == { <<"a">>, <<"a", "b">>, <<"A", "b">> }
CacheKeys == { toLowerCase(q) : q \in Queries }

----------------------------------------------------------------------------
\* Results and errors
NoCount == -1   \* totalCount absent

EmptyResult == [tags |-> <<>>, hasMore |-> FALSE, totalCount |-> NoCount]

\* An error value: isError is `instanceof Error`; kind is the ApiError kind
\* ("" for a value that is not an ApiError).
NoError == [isError |-> FALSE, name |-> "", kind |-> "", message |-> "",
            hasResponse |-> FALSE, httpStatus |-> 0, retryable |-> FALSE]

RawError(name, message, hasResponse, httpStatus) ==
    [isError |-> TRUE, name |-> name, kind |-> "", message |-> message,
     hasResponse |-> hasResponse, httpStatus |-> httpStatus, retryable |-> FALSE]

AbortError   == RawError("AbortError", "This operation was aborted", FALSE, 0)
FetchFailure == RawError("TypeError", "Failed to fetch", FALSE, 0)
TimeoutError == RawError("TimeoutError", "Request timed out: GET", FALSE, 0)
HTTPError(st) == RawError("HTTPError", "Request failed with status code", TRUE, st)
\* thrown by searchTags itself when the response body has no Items array
MalformedBody == RawError("TypeError", "Cannot read properties of undefined", FALSE, 0)

createApiError(kind, message, st) ==
    [isError |-> FALSE, name |-> "", kind |-> kind, message |-> message,
     hasResponse |-> FALSE, httpStatus |-> st,
     retryable |-> (kind = "Network" \/ kind = "RateLimit" \/ kind = "Server")]

mapHttpStatusToErrorKind(st) ==
    IF st = 401 \/ st = 403 THEN "Auth"
    ELSE IF st = 404 THEN "NotFound"
    ELSE IF st = 400 \/ st = 422 THEN "Validation"
    ELSE IF st = 409 THEN "Conflict"
    ELSE IF st = 429 THEN "RateLimit"
    ELSE IF st >= 500 THEN "Server"
    ELSE "Unknown"

\* error.message.includes('fetch')
MentionsFetch(e) == e.message = "Failed to fetch"

normalizeError(e) ==
    IF e.isError
    THEN IF e.hasResponse
         THEN createApiError(mapHttpStatusToErrorKind(e.httpStatus), e.message, e.httpStatus)
         ELSE IF e.name = "TypeError" /\ MentionsFetch(e)
         THEN createApiError("Network", "Network request failed", 0)
         ELSE IF e.name = "TimeoutError"
         THEN createApiError("Network", "Request timed out", 0)
         ELSE createApiError("Unknown", e.message, 0)
    ELSE createApiError("Unknown", "An unknown error occurred", 0)

----------------------------------------------------------------------------
\* Promises
Pending     == [state |-> "pending",  result |-> EmptyResult, err |-> NoError]
Resolved(r) == [state |-> "resolved", result |-> r,           err |-> NoError]
Rejected(e) == [state |-> "rejected", result |-> EmptyResult, err |-> e]

\* resolve()/reject() of an already settled promise is ignored
Settle(p, v) == IF p.state = "pending" THEN v ELSE p

Job(kind, id) == [kind |-> kind, id |-> id]

NoResponse == [ok |-> FALSE, result |-> EmptyResult, err |-> NoError]

----------------------------------------------------------------------------
\* The point catalog: a name search answers with the first n points.
Items(n) == [k \in 1..n |-> k]

\* normalizePoint renames the fields of a point; a Tag is identified by its id
normalizePoint(point) == point

Min(a, b) == IF a < b THEN a ELSE b

\* searchTags (tags.ts): the TagSearchResult built from a response of n Items
TagResult(items, limit) ==
    [tags       |-> [k \in 1..Min(Len(items), limit) |-> normalizePoint(items[k])],
     hasMore    |-> Len(items) > limit,
     totalCount |-> Len(items)]

ItemCounts == {0, Limit + 1}

\* What a request that was sent can settle with (seen by the service):
\* a result, a normalised transport error, or the TypeError searchTags throws
\* on a body without Items.
Outcomes ==
    { [ok |-> TRUE, result |-> TagResult(Items(n), Limit), err |-> NoError] : n \in ItemCounts }
    \cup
    { [ok |-> FALSE, result |-> EmptyResult, err |-> e] :
        e \in { normalizeError(FetchFailure), MalformedBody } }

\* piWebApiRequest rejects an aborted request with normalizeError(AbortError)
AbortOutcome == [ok |-> FALSE, result |-> EmptyResult, err |-> normalizeError(AbortError)]

----------------------------------------------------------------------------
\* Tag Search service (service.ts)

NoEntry == [present |-> FALSE, result |-> EmptyResult, timestamp |-> 0]

\* The mutable state of the service instance and of the event loop as one value
Svc == [debounceTimer   |-> debounceTimer,
        abortController |-> abortController,
        pendingResolve  |-> pendingResolve,
        searches        |-> searches,
        calls           |-> calls,
        microtasks      |-> microtasks]

Commit(S) ==
    /\ debounceTimer'   = S.debounceTimer
    /\ abortController' = S.abortController
    /\ pendingResolve'  = S.pendingResolve
    /\ searches'        = S.searches
    /\ calls'           = S.calls
    /\ microtasks'      = S.microtasks

\* abortController.abort(): the signal of request c is aborted; a request that
\* is in flight settles at once with the (normalised) abort rejection, whose
\* reaction is queued
abort(S, c) ==
    IF S.searches[c].request = "inflight"
    THEN [S EXCEPT !.searches = [@ EXCEPT ![c].aborted = TRUE,
                                          ![c].request = "aborted",
                                          ![c].response = AbortOutcome],
                   !.microtasks = Append(@, Job("SvcCont", c))]
    ELSE [S EXCEPT !.searches = [@ EXCEPT ![c].aborted = TRUE]]

\* clearTimeout(debounceTimer)
clearTimeout(ss, t) ==
    [ss EXCEPT ![t].timer = IF @ = "armed" THEN "cleared" ELSE @]

\* resolve(result) of the promise created in search(): settles it and, when it
\* was pending, queues the reaction that settles the promise search() returned
resolveInner(S, p, v) ==
    IF S.searches[p].inner.state = "pending"
    THEN [S EXCEPT !.searches = [@ EXCEPT ![p].inner = v],
                   !.microtasks = Append(@, Job("Adopt", p))]
    ELSE S

cancelNoAbort(S) ==
    LET t  == S.debounceTimer
        p  == S.pendingResolve
    IN IF t # 0
       THEN LET Sa == [S EXCEPT !.debounceTimer = 0,
                                !.searches = clearTimeout(@, t)]
            IN IF p # 0
               THEN [resolveInner(Sa, p, Resolved(EmptyResult)) EXCEPT !.pendingResolve = 0]
               ELSE Sa
       ELSE S

cancelNoResolve(S) ==
    LET t  == S.debounceTimer
        S1 == IF t # 0
              THEN [S EXCEPT !.debounceTimer = 0, !.searches = clearTimeout(@, t)]
              ELSE S
        c  == S1.abortController
    IN IF c # 0 THEN [abort(S1, c) EXCEPT !.abortController = 0] ELSE S1

\* a cancel that leaves the debounce timer alone
cancelRequestOnly(S) ==
    LET c == S.abortController
    IN IF c # 0 THEN [abort(S, c) EXCEPT !.abortController = 0] ELSE S

\* a cancel that drops the resolver of the debounced search without calling it
cancelForgetsPending(S) ==
    LET t  == S.debounceTimer
        S1 == IF t # 0
              THEN [S EXCEPT !.debounceTimer = 0, !.pendingResolve = 0,
                             !.searches = clearTimeout(@, t)]
              ELSE S
        c  == S1.abortController
    IN IF c # 0 THEN [abort(S1, c) EXCEPT !.abortController = 0] ELSE S1

cancel(S) ==
    LET t  == S.debounceTimer
        p  == S.pendingResolve
        S1 == IF t # 0
              THEN LET Sa == [S EXCEPT !.debounceTimer = 0,
                                       !.searches = clearTimeout(@, t)]
                   IN IF p # 0
                      THEN [resolveInner(Sa, p, Resolved(EmptyResult))
                              EXCEPT !.pendingResolve = 0]
                      ELSE Sa
              ELSE S
        c  == S1.abortController
    IN IF c # 0 THEN [abort(S1, c) EXCEPT !.abortController = 0] ELSE S1

getCachedResultExact(q) ==
    IF ~enableCache THEN NoEntry
    ELSE IF q \in CacheKeys /\ cache[q].present /\ now - cache[q].timestamp < CACHE_TTL
         THEN cache[q]
         ELSE NoEntry

\* the entry returned for query q, or NoEntry for null
getCachedResult(q) ==
    IF ~enableCache THEN NoEntry
    ELSE LET cached == cache[toLowerCase(q)]
         IN IF cached.present /\ now - cached.timestamp < CACHE_TTL
            THEN cached
            ELSE NoEntry

setCachedResult(c, q, result) ==
    IF ~enableCache THEN c
    ELSE [c EXCEPT ![toLowerCase(q)] =
             [present |-> TRUE, result |-> result, timestamp |-> now]]

\* ids of the searches whose backend result had been delivered to the service
Completed(ss) == { i \in 1..Len(ss) : ss[i].completedAt >= 0 }

NewSearch(q, caller, ss) ==
    [query       |-> q,
     caller      |-> caller,          \* "direct" or "store"
     timer       |-> "none",          \* none / armed / cleared / fired
     request     |-> "none",          \* none / inflight / settled / aborted
     aborted     |-> FALSE,           \* signal.aborted
     response    |-> NoResponse,      \* what apiSearchTags settled with
     inner       |-> Pending,         \* the promise created by new Promise(...)
     outer       |-> Pending,         \* the promise search() returned
     issuedAt    |-> now,
     doneAtIssue |-> Completed(ss),
     completedAt |-> -1,              \* Date.now() when the result was cached
     stale       |-> FALSE,           \* superseded in the store
     storeDone   |-> FALSE]           \* the store's continuation has run

\* search() returning a value: the returned promise is already resolved, and
\* the store's await queues its continuation directly
immediate(S, rec, result) ==
    LET id == Len(S.searches) + 1
    IN [S EXCEPT !.searches = Append(@, [rec EXCEPT !.inner = Resolved(result),
                                                     !.outer = Resolved(result)]),
                 !.microtasks = IF rec.caller = "store"
                                THEN Append(@, Job("StoreCont", id)) ELSE @]

searchNoCancel(S, q, caller) ==
    LET id     == Len(S.searches) + 1
        rec    == NewSearch(q, caller, S.searches)
        cached == getCachedResult(q)
    IN IF Len(q) = 0 \/ Len(q) < minChars
       THEN immediate(S, rec, EmptyResult)
       ELSE IF cached.present
       THEN immediate(S, rec, cached.result)
       ELSE [S EXCEPT !.pendingResolve = id,
                      !.debounceTimer  = id,
                      !.searches = Append(@, [rec EXCEPT !.timer = "armed"])]

\* a search that debounces a query of any length
searchAnyLength(S, q, caller) ==
    LET S0     == cancel(S)
        id     == Len(S0.searches) + 1
        rec    == NewSearch(q, caller, S0.searches)
    IN [S0 EXCEPT !.pendingResolve = id,
                  !.debounceTimer  = id,
                  !.searches = Append(@, [rec EXCEPT !.timer = "armed"])]

\* service.search(query) up to the promise it returns
search(S, q, caller) ==
    LET S0     == cancel(S)
        id     == Len(S0.searches) + 1
        rec    == NewSearch(q, caller, S0.searches)
        cached == getCachedResult(q)
    IN IF Len(q) = 0 \/ Len(q) < minChars
       THEN immediate(S0, rec, EmptyResult)
       ELSE IF cached.present
       THEN immediate(S0, rec, cached.result)
       ELSE [S0 EXCEPT !.pendingResolve = id,
                       !.debounceTimer  = id,
                       !.searches = Append(@, [rec EXCEPT !.timer = "armed"])]

----------------------------------------------------------------------------
\* Tag Search store (store.ts)

Null == "<null>"

\* a TagSearchContext: its callbacks (0 when it has none, else the token of
\* the functions supplied) and its initialQuery ('' when it has none)
Context(callbacks, initialQuery) == [callbacks |-> callbacks, initialQuery |-> initialQuery]
NoContext == Context(0, <<>>)

Store == [isOpen |-> isOpen, query |-> query, results |-> results,
          status |-> status, error |-> error, hasMore |-> hasMore,
          selectedIndex |-> selectedIndex, context |-> context, invoked |-> invoked]

CommitStore(T) ==
    /\ isOpen' = T.isOpen
    /\ query' = T.query
    /\ results' = T.results
    /\ status' = T.status
    /\ error' = T.error
    /\ hasMore' = T.hasMore
    /\ selectedIndex' = T.selectedIndex
    /\ context' = T.context
    /\ invoked' = T.invoked
    /\ UNCHANGED <<authVars, raceVars>>

\* history: the searches the store issued so far are superseded from now on
Supersede(S) ==
    [S EXCEPT !.searches = [i \in DOMAIN @ |->
        IF @[i].caller = "store" THEN [@[i] EXCEPT !.stale = TRUE] ELSE @[i]]]

\* a store.search without the check of the length of the query
storeSearchAnyLength(T, S, q) ==
    LET T1 == [T EXCEPT !.query = q, !.selectedIndex = 0]
    IN [st  |-> [T1 EXCEPT !.status = "loading", !.error = Null],
        svc |-> search(Supersede(S), q, "store")]

\* store.search(searchQuery) up to its first await (or its early return)
storeSearch(T, S, q) ==
    LET T1 == [T EXCEPT !.query = q, !.selectedIndex = 0]
    IN IF Len(q) = 0 \/ Len(q) < minChars
       THEN [st  |-> [T1 EXCEPT !.results = <<>>, !.status = "idle",
                                !.error = Null, !.hasMore = FALSE],
             svc |-> Supersede(S)]
       ELSE [st  |-> [T1 EXCEPT !.status = "loading", !.error = Null],
             svc |-> search(Supersede(S), q, "store")]

\* does store.search(q) call service.search ?
Delegates(q) == ~(Len(q) = 0 \/ Len(q) < minChars)

----------------------------------------------------------------------------
\* The AF backend behind PI Web API, as far as the mappers observe it

Undefined == "<undefined>"

\* JavaScript truthiness of an optional string
Truthy(x) == x # Undefined /\ x # ""

\* A JSON object is a set of <<key, value>> pairs; a JSON text is what
\* JSON.stringify makes of it, or a string that JSON.parse rejects.
stringify(obj) == [valid |-> TRUE, pairs |-> obj]
Garbage        == [valid |-> FALSE, pairs |-> {}]
Field(obj, key) ==
    LET S == { pr \in obj : pr[1] = key }
    IN IF S = {} THEN Undefined ELSE (CHOOSE pr \in S : TRUE)[2]

\* config.af.reservedAttributes (tests/mocks/config.ts)
permissionsJson == "DSM__PERMISSIONS_JSON"
metadataJson    == "DSM__METADATA_JSON"

\* a description is the list of parts joined by ' '; a part is '[word]' or text
Bracket(t) == [b |-> TRUE, t |-> t]
Text(t)    == [b |-> FALSE, t |-> t]

\* the name of the reserved child element, as a one-token string
MetadataElementName == <<"DSM__METADATA">>

RootWebId == 1
UserWebId == 2
DfWebId   == 3

\* an AF database that already holds the root, one user element and one
\* DataFrame of that user with its reserved child and permissions attribute
InitialAf ==
    [next  |-> 6,
     elems |-> { [id |-> RootWebId, parent |-> 0, name |-> <<"R">>, description |-> <<>>],
                 [id |-> UserWebId, parent |-> RootWebId, name |-> <<"U">>, description |-> <<>>],
                 [id |-> DfWebId, parent |-> UserWebId, name |-> <<"D">>, description |-> <<>>],
                 [id |-> 4, parent |-> DfWebId, name |-> MetadataElementName,
                  description |-> <<Text("DSM system metadata")>>] },
     attrs |-> { [id |-> 5, owner |-> 4, name |-> permissionsJson, description |-> <<>>,
                  config |-> "", hasValue |-> TRUE,
                  value |-> stringify({<<"mode", "PRIVATE">>, <<"ownerSid", "S-1">>})] }]

ElemIds(a) == { e.id : e \in a.elems }
AttrIds(a) == { x.id : x \in a.attrs }
ElemById(a, id) == CHOOSE e \in a.elems : e.id = id
AttrById(a, id) == CHOOSE x \in a.attrs : x.id = id

NoContent == [WebId |-> 0, Name |-> "", Description |-> <<>>, Type |-> Undefined]
ElemContent(e) == [WebId |-> e.id, Name |-> e.name, Description |-> e.description,
                   Type |-> Undefined]
AttrContent(x) == [WebId |-> x.id, Name |-> x.name, Description |-> x.description,
                   Type |-> "String"]

\* one entry of the batch response map; present = FALSE is an absent key
Entry(st, loc, content) ==
    [present |-> TRUE, Status |-> st, Location |-> loc, Content |-> content]
Missing == [present |-> FALSE, Status |-> 0, Location |-> 0, Content |-> NoContent]

\* one sub-request of a batch payload: kind is the resource the method acts
\* on; ref = 0 means an absolute Resource (base), else '{0}' bound to the
\* Location header of step ref
Step(method, kind, base, ref, parents, name, description, config, value) ==
    [Method |-> method, kind |-> kind, base |-> base, ref |-> ref,
     ParentIds |-> parents, Name |-> name, Description |-> description,
     Config |-> config, Value |-> value]

StepTarget(step, resp) == IF step.ref = 0 THEN step.base ELSE resp[step.ref].Location

\* the backend executing one sub-request whose parents succeeded
ExecStep(a, step, resp) ==
    LET tgt == StepTarget(step, resp)
    IN IF step.Method = "POST" /\ step.kind = "elements"
       THEN IF tgt \in ElemIds(a)
            THEN [af |-> [a EXCEPT !.next = @ + 1,
                                   !.elems = @ \cup { [id |-> a.next, parent |-> tgt,
                                                       name |-> step.Name,
                                                       description |-> step.Description] }],
                  entry |-> Entry(201, a.next, NoContent)]
            ELSE [af |-> a, entry |-> Entry(404, 0, NoContent)]
       ELSE IF step.Method = "POST" /\ step.kind = "attributes"
       THEN IF tgt \in ElemIds(a) \cup AttrIds(a)
            THEN [af |-> [a EXCEPT !.next = @ + 1,
                                   !.attrs = @ \cup { [id |-> a.next, owner |-> tgt,
                                                       name |-> step.Name,
                                                       description |-> step.Description,
                                                       config |-> step.Config,
                                                       hasValue |-> FALSE,
                                                       value |-> Garbage] }],
                  entry |-> Entry(201, a.next, NoContent)]
            ELSE [af |-> a, entry |-> Entry(404, 0, NoContent)]
       ELSE IF step.Method = "PUT" /\ step.kind = "value"
       THEN IF tgt \in AttrIds(a)
            THEN [af |-> [a EXCEPT !.attrs = { IF x.id = tgt
                                               THEN [x EXCEPT !.hasValue = TRUE,
                                                              !.value = step.Value]
                                               ELSE x : x \in @ }],
                  entry |-> Entry(204, 0, NoContent)]
            ELSE [af |-> a, entry |-> Entry(404, 0, NoContent)]
       ELSE \* GET of the resource itself
            IF tgt \in ElemIds(a)
            THEN [af |-> a, entry |-> Entry(200, 0, ElemContent(ElemById(a, tgt)))]
            ELSE IF tgt \in AttrIds(a)
            THEN [af |-> a, entry |-> Entry(200, 0, AttrContent(AttrById(a, tgt)))]
            ELSE [af |-> a, entry |-> Entry(404, 0, NoContent)]

Succeeded(e) == e.present /\ e.Status >= 200 /\ e.Status <= 299

\* the backend executing a batch: a sub-request runs once all its ParentIds
\* succeeded; env says which sub-request (if any) the backend refuses and
\* whether sub-requests that did not run are reported (409) or left out
RECURSIVE ExecBatch(_, _, _, _, _)
ExecBatch(a, payload, k, resp, env) ==
    IF k > Len(payload) THEN [af |-> a, resp |-> resp]
    ELSE LET step == payload[k]
         IN IF ~(\A pid \in step.ParentIds : Succeeded(resp[pid]))
            THEN ExecBatch(a, payload, k + 1,
                           Append(resp, IF env.omit THEN Missing
                                        ELSE Entry(409, 0, NoContent)), env)
            ELSE IF k = env.failAt
            THEN ExecBatch(a, payload, k + 1,
                           Append(resp, Entry(env.failStatus, 0, NoContent)), env)
            ELSE LET r == ExecStep(a, step, resp)
                 IN ExecBatch(r.af, payload, k + 1, Append(resp, r.entry), env)

\* GET elements/{id}/elements?nameFilter=name
ChildElements(a, id, name) == { e \in a.elems : e.parent = id /\ e.name = name }
\* GET elements/{id}/attributes, GET attributes/{id}/attributes
Attributes(a, id) == { x \in a.attrs : x.owner = id }

----------------------------------------------------------------------------
\* Entity mappers (dataframes.ts, columns.ts, userelements.ts)

DefaultPermissions == { <<"mode", "PRIVATE">>, <<"ownerSid", "">> }

NoResult == [id |-> 0, name |-> Undefined, description |-> <<>>,
             permissions |-> {}, metadata |-> {},
             valueSourceType |-> Undefined, valueSource |-> Undefined,
             valueType |-> Undefined, order |-> 0]

\* an optional metadata argument
NoMeta     == [defined |-> FALSE, pairs |-> {}]
Meta(obj)  == [defined |-> TRUE, pairs |-> obj]

NoInput == [name |-> Undefined, description |-> Undefined, permissions |-> Undefined,
            metadata |-> NoMeta, valueSourceType |-> Undefined,
            valueSource |-> Undefined, sid |-> Undefined, identityType |-> Undefined,
            originalName |-> Undefined]

\* a thrown value: an Error with its message (and what the message embeds),
\* or the ApiError piWebApiRequest throws
NoThrown == [kind |-> "none", message |-> "", detail |-> Undefined,
             batchResponse |-> <<>>, api |-> NoError]
ThrownError(message, detail, resp) ==
    [kind |-> "Error", message |-> message, detail |-> detail,
     batchResponse |-> resp, api |-> NoError]
ThrownApi(e) ==
    [kind |-> "ApiError", message |-> e.message, detail |-> Undefined,
     batchResponse |-> <<>>, api |-> e]

IdleOp ==
    [kind |-> "none", pc |-> "idle", target |-> 0, input |-> NoInput,
     ownerSid |-> Undefined, payload |-> <<>>, hasResp |-> FALSE, resp |-> <<>>,
     lookupFailed |-> FALSE, detailsFailed |-> FALSE, metaId |-> 0,
     items |-> <<>>, list |-> <<>>, service |-> FALSE, invalid |-> FALSE,
     attrId |-> 0,
     element |-> NoContent, outcome |-> "none",
     result |-> NoResult, thrown |-> NoThrown]

Req(method, resource, arg) == [method |-> method, resource |-> resource, arg |-> arg]

\* input.metadata && Object.keys(input.metadata).length > 0
HasMetadata(input) == input.metadata.defined /\ input.metadata.pairs # {}

\* a payload whose read-back waits for the first step only
DataFramePayloadEarlyReadBack(userElementWebId, input, ownerSid) ==
    LET permissions == { <<"mode", IF input.permissions = Undefined THEN "PRIVATE"
                                   ELSE input.permissions>>,
                         <<"ownerSid", ownerSid>> }
        head == << Step("POST", "elements", userElementWebId, 0, {},
                        toUpperCase(input.name),
                        IF input.description = Undefined THEN <<>>
                        ELSE <<Text(input.description)>>, "", Garbage),
                   Step("POST", "elements", 0, 1, {1}, MetadataElementName,
                        <<Text("DSM system metadata")>>, "", Garbage),
                   Step("POST", "attributes", 0, 2, {2}, permissionsJson, <<>>, "", Garbage),
                   Step("PUT", "value", 0, 3, {3}, "", <<>>, "", stringify(permissions)) >>
        meta == IF HasMetadata(input)
                THEN << Step("POST", "attributes", 0, 2, {4}, metadataJson, <<>>, "", Garbage),
                        Step("PUT", "value", 0, 5, {5}, "", <<>>, "",
                             stringify(input.metadata.pairs)) >>
                ELSE <<>>
        body == head \o meta
    IN Append(body, Step("GET", "self", 0, 1, {1}, "", <<>>, "", Garbage))

\* createDataFrame: the batch payload (steps 1..5 or 1..7)
DataFramePayload(userElementWebId, input, ownerSid) ==
    LET permissions == { <<"mode", IF input.permissions = Undefined THEN "PRIVATE"
                                   ELSE input.permissions>>,
                         <<"ownerSid", ownerSid>> }
        head == << Step("POST", "elements", userElementWebId, 0, {},
                        toUpperCase(input.name),
                        IF input.description = Undefined THEN <<>>
                        ELSE <<Text(input.description)>>, "", Garbage),
                   Step("POST", "elements", 0, 1, {1}, MetadataElementName,
                        <<Text("DSM system metadata")>>, "", Garbage),
                   Step("POST", "attributes", 0, 2, {2}, permissionsJson, <<>>, "", Garbage),
                   Step("PUT", "value", 0, 3, {3}, "", <<>>, "", stringify(permissions)) >>
        meta == IF HasMetadata(input)
                THEN << Step("POST", "attributes", 0, 2, {4}, metadataJson, <<>>, "", Garbage),
                        Step("PUT", "value", 0, 5, {5}, "", <<>>, "",
                             stringify(input.metadata.pairs)) >>
                ELSE <<>>
        body == head \o meta
    IN Append(body, Step("GET", "self", 0, 1, {Len(body)}, "", <<>>, "", Garbage))

\* buildColumnDescription
buildColumnDescription(input) ==
    IF Truthy(input.valueSource)
    THEN << Bracket(input.valueSourceType), Text(input.valueSource) >>
    ELSE << Bracket(input.valueSourceType) >>

\* createColumn: the batch payload (steps 1..4)
ColumnPayload(dataframeWebId, input) ==
    LET columnConfig == IF input.metadata.defined THEN input.metadata.pairs ELSE {}
    IN << Step("POST", "attributes", dataframeWebId, 0, {}, input.name,
               buildColumnDescription(input),
               IF Truthy(input.valueSource) THEN input.valueSource ELSE "", Garbage),
          Step("POST", "attributes", 0, 1, {1}, "DSM__CONFIG", <<>>, "", Garbage),
          Step("PUT", "value", 0, 2, {2}, "", <<>>, "", stringify(columnConfig)),
          Step("GET", "self", 0, 1, {3}, "", <<>>, "", Garbage) >>

\* createUserElement: the batch payload (steps 1..4)
UserElementPayload(rootWebId, input) ==
    LET userMetadata == { <<"sid", input.sid>>, <<"identityType", input.identityType>>,
                          <<"originalName", input.originalName>>,
                          <<"createdAt", "now">> }
    IN << Step("POST", "elements", rootWebId, 0, {}, input.name,
               <<Text("User element for"), Text(input.originalName)>>, "", Garbage),
          Step("POST", "attributes", 0, 1, {1}, metadataJson, <<>>, "", Garbage),
          Step("PUT", "value", 0, 2, {2}, "", <<>>, "", stringify(userMetadata)),
          Step("GET", "self", 0, 1, {3}, "", <<>>, "", Garbage) >>

\* the key of the final (read-back) step: finalRequestId, '4'
FinalId(o) == Len(o.payload)

\* the check of the final entry reduced to its presence
FinalFailedPresenceOnly(o, resp) == ~resp[FinalId(o)].present

\* `!r || r.Status !== 200` on the entry of the final step
FinalFailed(o, resp) == ~resp[FinalId(o)].present \/ resp[FinalId(o)].Status # 200

FailureMessage(kind) ==
    IF kind = "createDataFrame" THEN "Failed to create DataFrame"
    ELSE IF kind = "createColumn" THEN "Failed to create column"
    ELSE "Failed to create user element"

\* fetchDataFrameDetails without the decoding of the stored attributes
DataFrameOfDefaults(element, attrs) ==
    [NoResult EXCEPT !.id = element.WebId, !.name = element.Name,
                     !.description = element.Description,
                     !.permissions = DefaultPermissions, !.metadata = {}]

\* fetchDataFrameDetails: the DataFrame built from the element and from the
\* attributes read from the reserved child (attrs = {} when none were read)
DataFrameOf(element, attrs) ==
    LET perm == { x \in attrs : x.name = permissionsJson /\ x.hasValue /\ x.value.valid }
        meta == { x \in attrs : x.name = metadataJson /\ x.hasValue /\ x.value.valid }
    IN [NoResult EXCEPT
          !.id = element.WebId, !.name = element.Name,
          !.description = element.Description,
          !.permissions = IF perm = {} THEN DefaultPermissions
                          ELSE (CHOOSE x \in perm : TRUE).value.pairs,
          !.metadata = IF meta = {} THEN {}
                       ELSE (CHOOSE x \in meta : TRUE).value.pairs]

\* fetchColumnDetails: the Column built from the attribute, its child
\* attributes and its description '[Type] Source'
ColumnOf(attr, children, order) ==
    LET cfg  == { x \in children : x.name = "DSM__CONFIG" /\ x.hasValue /\ x.value.valid }
        desc == attr.Description
        typed == Len(desc) > 0 /\ desc[1].b
    IN [NoResult EXCEPT
          !.id = attr.WebId, !.name = attr.Name,
          !.metadata = IF cfg = {} THEN {} ELSE (CHOOSE x \in cfg : TRUE).value.pairs,
          !.valueSourceType = IF typed THEN desc[1].t ELSE "PiTag",
          !.valueSource = IF typed /\ Len(desc) > 1 THEN desc[2].t ELSE Undefined,
          !.valueType = attr.Type,
          !.order = order]

Returned(o, result) == [o EXCEPT !.pc = "done", !.outcome = "returned", !.result = result]
Threw(o, thrown)    == [o EXCEPT !.pc = "done", !.outcome = "threw", !.thrown = thrown]

CanStart == op.pc \in {"idle", "done"} /\ nOps < MaxOps

BatchRequest == Req("POST", "batch", 0)

\* what is kept of a finished call: its arguments and its outcome, without
\* the batch it sent and the response map it got
Summary(o) == [o EXCEPT !.payload = <<>>, !.resp = <<>>, !.items = <<>>,
                        !.element = NoContent, !.metaId = 0, !.attrId = 0,
                        !.thrown = [@ EXCEPT !.batchResponse = <<>>]]

\* the finished calls in order, the last one included once it has settled
Calls == IF op.pc = "done" THEN Append(history, [call |-> Summary(op), af |-> af])
         ELSE history

\* history is an observer's log of finished calls: a behaviour that compares
\* calls records the finished one when the next starts, another forgets it
Record == history' = Calls
Forget == history' = history

----------------------------------------------------------------------------
\* Auth store (stores/auth.ts)

\* a UserInfo, or null (present is FALSE): name as characters, label the same
\* name as one token
NoUser == [present |-> FALSE, identityType |-> "", name |-> <<>>, label |-> "",
           isAuthenticated |-> FALSE, sid |-> ""]
UserInfo(identityType, name, label, isAuthenticated, sid) ==
    [present |-> TRUE, identityType |-> identityType, name |-> name, label |-> label,
     isAuthenticated |-> isAuthenticated, sid |-> sid]

\* the error of the store: null, or the message with what precedes it
NoMessage == [isNull |-> TRUE, prefix |-> "", message |-> ""]
Message(prefix, message) == [isNull |-> FALSE, prefix |-> prefix, message |-> message]

\* the store as defineStore('auth', ...) builds it
NewAuthStore == [user |-> NoUser, loading |-> FALSE, error |-> NoMessage,
                 userElementWebId |-> 0]

setUser(A, userInfo)  == [A EXCEPT !.user = userInfo, !.error = NoMessage]
setLoading(A, isLoading) == [A EXCEPT !.loading = isLoading]
setError(A, errorMessage) == [A EXCEPT !.error = errorMessage]

\* computed isAuthenticated: user.value?.isAuthenticated ?? false
isAuthenticated(A) == A.user.present /\ A.user.isAuthenticated

\* a call of initializeAuth: its position (idle, userinfo, element, done),
\* how it settled, and the calls made so far
NoInitAuth == [pc |-> "idle", outcome |-> "none", userInfoError |-> NoError,
               elementFailed |-> FALSE, n |-> 0]

\* a caller of getOrCreateUserElement: its call, the requests it has sent,
\* and whether an element of its name existed when its lookup was answered
NoRacer == [op |-> IdleOp, sent |-> <<>>, existed |-> FALSE]

----------------------------------------------------------------------------
\* Initial state: a fresh service instance and a fresh store

Init ==
    /\ enableCache \in BOOLEAN
    /\ now = 0
    /\ debounceTimer = 0
    /\ abortController = 0
    /\ pendingResolve = 0
    /\ cache = [k \in CacheKeys |-> NoEntry]
    /\ searches = <<>>
    /\ calls = <<>>
    /\ microtasks = <<>>
    /\ isOpen = FALSE
    /\ query = <<>>
    /\ results = <<>>
    /\ status = "idle"
    /\ error = Null
    /\ hasMore = FALSE
    /\ selectedIndex = 0
    /\ context = NoContext
    /\ invoked = <<>>
    /\ authStore = NewAuthStore
    /\ initAuth = NoInitAuth
    /\ racers = [c \in 1..MaxRacers |-> NoRacer]
    /\ af = InitialAf
    /\ op = IdleOp
    /\ requests = <<>>
    /\ nOps = 0
    /\ history = <<>>
    /\ cachedRootWebId = 0

----------------------------------------------------------------------------
\* Macrotasks: they run only when the microtask queue is empty

Idle == microtasks = <<>>

\* a direct caller invokes service.search(q)
Search(q) ==
    /\ Idle
    /\ Len(searches) < MaxSearches
    /\ Commit(search(Svc, q, "direct"))
    /\ UNCHANGED mapVars
    /\ UNCHANGED <<enableCache, now, cache, storeVars>>

\* a direct caller invokes service.cancel()
Cancel ==
    /\ Idle
    /\ Commit(cancel(Svc))
    /\ UNCHANGED mapVars
    /\ UNCHANGED <<enableCache, now, cache, storeVars>>

\* the callback of setTimeout(..., debounceMs) up to its await
TimerFire(i) ==
    /\ Idle
    /\ i \in 1..Len(searches)
    /\ searches[i].timer = "armed"
    /\ pendingResolve' = 0
    /\ abortController' = i
    /\ calls' = Append(calls, [id |-> i, query |-> searches[i].query,
                              latest |-> Len(searches)])
    /\ IF Len(searches[i].query) = 0 \/ Len(searches[i].query) < SearchTagsMin
       THEN /\ searches' = [searches EXCEPT ![i].timer = "fired",
                               ![i].response = [ok |-> TRUE, result |-> EmptyResult,
                                                err |-> NoError]]
            /\ microtasks' = Append(microtasks, Job("SvcCont", i))
       ELSE /\ searches' = [searches EXCEPT ![i].timer = "fired",
                                            ![i].request = "inflight"]
            /\ microtasks' = microtasks
    /\ UNCHANGED mapVars
    /\ UNCHANGED <<enableCache, now, cache, debounceTimer, storeVars>>

\* the request of search i settles: response, transport error or bad body
Respond(i, o) ==
    /\ Idle
    /\ i \in 1..Len(searches)
    /\ searches[i].request = "inflight"
    /\ searches' = [searches EXCEPT ![i].request = "settled", ![i].response = o]
    /\ microtasks' = Append(microtasks, Job("SvcCont", i))
    /\ UNCHANGED mapVars
    /\ UNCHANGED <<enableCache, now, cache, debounceTimer, abortController,
                   pendingResolve, calls, storeVars>>

\* time passes; a debounce timer (120 ms) does not outlive a tick
Tick ==
    /\ Idle
    /\ now + TickMs <= MaxNow
    /\ \A i \in 1..Len(searches) : searches[i].timer # "armed"
    /\ now' = now + TickMs
    /\ UNCHANGED mapVars
    /\ UNCHANGED <<enableCache, cache, debounceTimer, abortController,
                   pendingResolve, searches, calls, microtasks, storeVars>>

\* store.open(ctx)
\* an open that leaves hasMore and selectedIndex as they are
openKeepsSelection(T, initialQuery, callbacks) ==
    [T EXCEPT !.context = Context(callbacks, initialQuery),
              !.query = initialQuery, !.results = <<>>,
              !.status = "idle", !.error = Null,
              !.isOpen = TRUE]

\* open(ctx): the assignments before the search is triggered
open(T, initialQuery, callbacks) ==
    [T EXCEPT !.context = Context(callbacks, initialQuery),
              !.query = initialQuery, !.results = <<>>,
              !.status = "idle", !.error = Null,
              !.hasMore = FALSE, !.selectedIndex = 0,
              !.isOpen = TRUE]

StoreOpen(initialQuery, callbacks) ==
    /\ Idle
    /\ LET T0 == open(Store, initialQuery, callbacks)
       IN IF Len(initialQuery) > 0
          THEN /\ Delegates(initialQuery) => Len(searches) < MaxStoreSearches
               /\ LET R == storeSearch(T0, Svc, initialQuery)
                  IN CommitStore(R.st) /\ Commit(R.svc)
          ELSE CommitStore(T0) /\ Commit(Supersede(Svc))
    /\ UNCHANGED mapVars
    /\ UNCHANGED <<enableCache, now, cache>>

\* close(): the assignments after service.cancel()
close(T) ==
    [T EXCEPT !.isOpen = FALSE, !.query = <<>>, !.results = <<>>,
              !.status = "idle", !.error = Null, !.context = NoContext]

\* store.close()
StoreClose ==
    /\ Idle
    /\ Commit(cancel(Supersede(Svc)))
    /\ CommitStore(close(Store))
    /\ UNCHANGED mapVars
    /\ UNCHANGED <<enableCache, now, cache>>

\* a call of a callback of the session: which one, with what tag (0 when it
\* takes none), and whether the store was open when it was called
Invocation(fn, tag, T) == [fn |-> fn, tag |-> tag, open |-> T.isOpen]

\* `context.value.onSelect?.(tag)` and `context.value.onCancel?.()`
invoke(T, fn, tag) ==
    IF T.context.callbacks # 0
    THEN [T EXCEPT !.invoked = Append(@, Invocation(fn, tag, T))]
    ELSE T

\* a selectTag that closes first and calls the callback of the closed store
selectTagAfterClose(T, tag) == invoke(close(T), "onSelect", tag)

\* selectTag(tag): the callback, then close()
selectTag(T, tag) == close(invoke(T, "onSelect", tag))

\* cancel(): the callback, then close()
storeCancel(T) == close(invoke(T, "onCancel", 0))

\* a selectedTag that is always the first result
selectedTagFirst(T) ==
    IF Len(T.results) > 0 THEN T.results[1] ELSE 0

\* const selectedTag = computed(...): 0 is null
selectedTag(T) ==
    IF T.selectedIndex >= 0 /\ T.selectedIndex < Len(T.results)
    THEN T.results[T.selectedIndex + 1] ELSE 0

\* the callbacks are called a bounded number of times in one behaviour
CanInvoke == context.callbacks # 0 => Len(invoked) < MaxInvoked

\* store.selectTag(tag)
SelectTag(tag) ==
    /\ Idle
    /\ CanInvoke
    /\ Commit(cancel(Supersede(Svc)))
    /\ CommitStore(selectTag(Store, tag))
    /\ UNCHANGED mapVars
    /\ UNCHANGED <<enableCache, now, cache>>

\* store.selectCurrent(): selectTag(selectedTag) when there is one
SelectCurrent ==
    /\ Idle
    /\ CanInvoke
    /\ IF selectedTag(Store) # 0
       THEN /\ Commit(cancel(Supersede(Svc)))
            /\ CommitStore(selectTag(Store, selectedTag(Store)))
            /\ UNCHANGED <<enableCache, now, cache>>
       ELSE UNCHANGED <<svcVars, storeVars>>
    /\ UNCHANGED mapVars

\* store.cancel()
StoreCancel ==
    /\ Idle
    /\ CanInvoke
    /\ Commit(cancel(Supersede(Svc)))
    /\ CommitStore(storeCancel(Store))
    /\ UNCHANGED mapVars
    /\ UNCHANGED <<enableCache, now, cache>>

\* setSelectedIndex(index)
setSelectedIndex(T, index) ==
    IF index >= 0 /\ index < Len(T.results) THEN [T EXCEPT !.selectedIndex = index] ELSE T

SetSelectedIndex(index) ==
    /\ Idle
    /\ CommitStore(setSelectedIndex(Store, index))
    /\ UNCHANGED mapVars
    /\ UNCHANGED svcVars

\* a moveSelection that stops at both ends
moveSelectionClamped(T, delta) ==
    IF Len(T.results) = 0 THEN T
    ELSE LET newIndex == T.selectedIndex + delta
         IN [T EXCEPT !.selectedIndex = IF newIndex < 0 THEN 0
                                        ELSE IF newIndex >= Len(T.results)
                                        THEN Len(T.results) - 1
                                        ELSE newIndex]

\* store.selectUp() and store.selectDown(): moveSelection(delta)
moveSelection(T, delta) ==
    IF Len(T.results) = 0 THEN T
    ELSE LET newIndex == T.selectedIndex + delta
         IN [T EXCEPT !.selectedIndex = IF newIndex < 0 THEN Len(T.results) - 1
                                        ELSE IF newIndex >= Len(T.results) THEN 0
                                        ELSE newIndex]

MoveSelection(delta) ==
    /\ Idle
    /\ CommitStore(moveSelection(Store, delta))
    /\ UNCHANGED mapVars
    /\ UNCHANGED svcVars

\* store.search(q) called by the view
StoreSearch(q) ==
    /\ Idle
    /\ Delegates(q) => Len(searches) < MaxStoreSearches
    /\ LET R == storeSearch(Store, Svc, q)
       IN CommitStore(R.st) /\ Commit(R.svc)
    /\ UNCHANGED mapVars
    /\ UNCHANGED <<enableCache, now, cache>>

----------------------------------------------------------------------------
\* Microtasks: the head job of the queue runs

HeadIs(kind) == microtasks # <<>> /\ Head(microtasks).kind = kind

\* the rest of the timer callback: after await apiSearchTags(...)
RunSvcCont ==
    /\ HeadIs("SvcCont")
    /\ LET i  == Head(microtasks).id
           r  == searches[i].response
           S0 == [Svc EXCEPT !.microtasks = Tail(@)]
           S1 == IF r.ok
                 THEN [resolveInner(S0, i, Resolved(r.result))
                         EXCEPT !.searches[i].completedAt = now]
                 ELSE IF r.err.isError /\ r.err.name = "AbortError"
                 THEN resolveInner(S0, i, Resolved(EmptyResult))
                 ELSE resolveInner(S0, i, Rejected(r.err))
       IN /\ cache' = IF r.ok THEN setCachedResult(cache, searches[i].query, r.result)
                      ELSE cache
          /\ Commit([S1 EXCEPT !.abortController = 0])
    /\ UNCHANGED mapVars
    /\ UNCHANGED <<enableCache, now, storeVars>>

\* the promise search() returned follows the promise it was resolved with
RunAdopt ==
    /\ HeadIs("Adopt")
    /\ LET i == Head(microtasks).id
       IN /\ searches' = [searches EXCEPT ![i].outer = Settle(@, searches[i].inner)]
          /\ microtasks' = IF searches[i].caller = "store"
                           THEN Append(Tail(microtasks), Job("StoreCont", i))
                           ELSE Tail(microtasks)
    /\ UNCHANGED mapVars
    /\ UNCHANGED <<enableCache, now, cache, debounceTimer, abortController,
                   pendingResolve, calls, storeVars>>

storeContinueKeepResults(T, p) ==
    IF p.state = "resolved"
    THEN [T EXCEPT !.results = p.result.tags, !.hasMore = p.result.hasMore,
                   !.status = "success"]
    ELSE [T EXCEPT !.error = IF p.err.isError THEN p.err.message ELSE "Search failed",
                   !.status = "error"]

\* store.search after await service.search(searchQuery): try / catch
storeContinue(T, p) ==
    IF p.state = "resolved"
    THEN [T EXCEPT !.results = p.result.tags, !.hasMore = p.result.hasMore,
                   !.status = "success"]
    ELSE [T EXCEPT !.error = IF p.err.isError THEN p.err.message ELSE "Search failed",
                   !.status = "error", !.results = <<>>]

RunStoreCont ==
    /\ HeadIs("StoreCont")
    /\ LET i == Head(microtasks).id
       IN /\ CommitStore(storeContinue(Store, searches[i].outer))
          /\ searches' = [searches EXCEPT ![i].storeDone = TRUE]
          /\ microtasks' = Tail(microtasks)
    /\ UNCHANGED mapVars
    /\ UNCHANGED <<enableCache, now, cache, debounceTimer, abortController,
                   pendingResolve, calls>>

----------------------------------------------------------------------------
\* Mapper calls; every await is a point where the backend answers

DataFrameNames == { <<"a", "b">>, <<"C", "d">> }
OwnerSids      == { "S-1", "S-2" }
ModeChoices    == { Undefined, "PRIVATE", "PUBLIC" }
MetaChoices    == { NoMeta, Meta({}), Meta({<<"a", "1">>}) }
SourceTypes    == { "PiTag", "FixedValue", "Formula" }
SourceChoices  == { Undefined, "", "tag1" }
FailStatuses   == { 400, 500 }
\* the longest payload: createDataFrame with metadata
MaxSteps       == 7
TransportErrors == { FetchFailure, HTTPError(500) }

\* createDataFrame(userElementWebId, input, ownerSid) up to its first await
beginCreateDataFrame(input, sid) ==
    [IdleOp EXCEPT !.kind = "createDataFrame", !.pc = "batch",
                   !.target = UserWebId, !.input = input, !.ownerSid = sid,
                   !.payload = DataFramePayload(UserWebId, input, sid)]

DataFrameInput(name, mode, meta) ==
    [NoInput EXCEPT !.name = name, !.permissions = mode, !.metadata = meta]

StartCreateDataFrame(name, mode, meta, sid) ==
    /\ CanStart
    /\ op' = beginCreateDataFrame(DataFrameInput(name, mode, meta), sid)
    /\ requests' = <<BatchRequest>>
    /\ nOps' = nOps + 1
    /\ UNCHANGED <<af, cachedRootWebId, svcVars, storeVars>>

\* createColumn(dataframeWebId, input) up to its first await
beginCreateColumn(input) ==
    LET o == [IdleOp EXCEPT !.kind = "createColumn", !.target = DfWebId,
                            !.input = input,
                            !.payload = ColumnPayload(DfWebId, input)]
    IN IF input.valueSourceType = "PiTag" /\ Truthy(input.valueSource)
       THEN [op |-> [o EXCEPT !.pc = "lookup"],
             sent |-> <<Req("GET", "points?path", input.valueSource)>>]
       ELSE [op |-> [o EXCEPT !.pc = "batch"], sent |-> <<BatchRequest>>]

ColumnInput(name, type, source, meta) ==
    [NoInput EXCEPT !.name = name, !.valueSourceType = type,
                    !.valueSource = source, !.metadata = meta]

StartCreateColumn(name, type, source, meta) ==
    /\ CanStart
    /\ op' = beginCreateColumn(ColumnInput(name, type, source, meta)).op
    /\ requests' = beginCreateColumn(ColumnInput(name, type, source, meta)).sent
    /\ nOps' = nOps + 1
    /\ UNCHANGED <<af, cachedRootWebId, svcVars, storeVars>>

\* createColumn with the catch around the lookup left out
afterLookupUnchecked(o, ok) ==
    [op |-> [o EXCEPT !.pc = "batch", !.lookupFailed = ~ok], sent |-> <<BatchRequest>>]

\* createColumn after the lookup settled: the catch rethrows, else the batch
afterLookup(o, ok) ==
    IF ok
    THEN [op |-> [o EXCEPT !.pc = "batch"], sent |-> <<BatchRequest>>]
    ELSE [op |-> Threw([o EXCEPT !.lookupFailed = TRUE],
                       ThrownError("PI Tag not found", o.input.valueSource, <<>>)),
          sent |-> <<>>]

\* createColumn: the point lookup settles
LookupResponds(ok) ==
    /\ op.pc = "lookup"
    /\ op' = afterLookup(op, ok).op
    /\ requests' = requests \o afterLookup(op, ok).sent
    /\ UNCHANGED <<af, nOps, history, cachedRootWebId, svcVars, storeVars>>

\* createUserElement(rootWebId, normalizedName, userInfo) up to its await
StartCreateUserElement(name, original, sid) ==
    /\ CanStart
    /\ LET input == [NoInput EXCEPT !.name = name, !.originalName = original,
                                    !.sid = sid, !.identityType = "WindowsIdentity"]
       IN op' = [IdleOp EXCEPT !.kind = "createUserElement", !.pc = "batch",
                               !.target = RootWebId, !.input = input,
                               !.payload = UserElementPayload(RootWebId, input)]
    /\ requests' = <<BatchRequest>>
    /\ nOps' = nOps + 1
    /\ UNCHANGED <<af, cachedRootWebId, svcVars, storeVars>>

\* the batch request fails in transport: piWebApiRequest throws an ApiError
BatchFails(e) ==
    /\ op.pc = "batch"
    /\ op' = Threw(op, ThrownApi(normalizeError(e)))
    /\ UNCHANGED <<af, requests, nOps, history, cachedRootWebId, svcVars, storeVars>>

\* what the mapper does with the batch response map
afterBatch(o, resp) ==
    LET o1    == [o EXCEPT !.hasResp = TRUE, !.resp = resp]
        final == resp[FinalId(o)]
    IN IF FinalFailed(o, resp)
       THEN [op |-> Threw(o1, ThrownError(FailureMessage(o.kind), o.input.name, resp)),
             sent |-> <<>>]
       ELSE IF o.kind = "createDataFrame"
       THEN [op |-> [o1 EXCEPT !.pc = "fd_children", !.element = final.Content],
             sent |-> <<Req("GET", "elements/{id}/elements?nameFilter", final.Content.WebId)>>]
       ELSE IF o.kind = "createColumn"
       THEN [op |-> [o1 EXCEPT !.pc = "cd_attrs", !.element = final.Content],
             sent |-> <<Req("GET", "attributes/{id}/attributes", final.Content.WebId)>>]
       ELSE [op |-> Returned(o1, [NoResult EXCEPT !.id = final.Content.WebId]),
             sent |-> <<>>]

\* the backend executes the batch and answers with the response map
BatchResponds(failAt, failStatus, omit) ==
    /\ op.pc = "batch"
    /\ failAt \in 0..Len(op.payload)
    /\ LET r == ExecBatch(af, op.payload, 1, <<>>,
                          [failAt |-> failAt, failStatus |-> failStatus, omit |-> omit])
           n == afterBatch(op, r.resp)
       IN /\ af' = r.af
          /\ op' = n.op
          /\ requests' = requests \o n.sent
    /\ UNCHANGED <<nOps, history, cachedRootWebId, svcVars, storeVars>>

\* fetchDataFrameDetails: the listing of the reserved child settles
FdChildren(ok) ==
    /\ op.pc = "fd_children"
    /\ LET kids == ChildElements(af, op.element.WebId, MetadataElementName)
       IN IF ~ok
          THEN /\ op' = Returned([op EXCEPT !.detailsFailed = TRUE],
                                 DataFrameOf(op.element, {}))
               /\ requests' = requests
          ELSE IF kids = {}
          THEN /\ op' = Returned(op, DataFrameOf(op.element, {}))
               /\ requests' = requests
          ELSE LET m == (CHOOSE e \in kids : TRUE).id
               IN /\ op' = [op EXCEPT !.pc = "fd_attrs", !.metaId = m]
                  /\ requests' = Append(requests, Req("GET", "elements/{id}/attributes", m))
    /\ UNCHANGED <<af, nOps, history, cachedRootWebId, svcVars, storeVars>>

\* fetchDataFrameDetails: the listing of the child's attributes settles
FdAttrs(ok) ==
    /\ op.pc = "fd_attrs"
    /\ op' = IF ok
             THEN Returned(op, DataFrameOf(op.element, Attributes(af, op.metaId)))
             ELSE Returned([op EXCEPT !.detailsFailed = TRUE], DataFrameOf(op.element, {}))
    /\ UNCHANGED <<af, requests, nOps, history, cachedRootWebId, svcVars, storeVars>>

\* fetchColumnDetails: the listing of the child attributes settles
CdAttrs(ok) ==
    /\ op.pc = "cd_attrs"
    /\ op' = IF ok
             THEN Returned(op, ColumnOf(op.element, Attributes(af, op.element.WebId), 0))
             ELSE Returned([op EXCEPT !.detailsFailed = TRUE], ColumnOf(op.element, {}, 0))
    /\ UNCHANGED <<af, requests, nOps, history, cachedRootWebId, svcVars, storeVars>>

NextMapper ==
    \/ \E name \in DataFrameNames, mode \in ModeChoices, meta \in MetaChoices,
          sid \in OwnerSids : StartCreateDataFrame(name, mode, meta, sid) /\ Forget
    \/ \E type \in SourceTypes, source \in SourceChoices, meta \in MetaChoices :
          StartCreateColumn("col1", type, source, meta) /\ Forget
    \/ \E ok \in BOOLEAN : LookupResponds(ok)
    \/ \E sid \in OwnerSids : StartCreateUserElement(<<"A", "B">>, "a\\b", sid) /\ Forget
    \/ \E e \in TransportErrors : BatchFails(e)
    \/ \E failAt \in 0..MaxSteps, failStatus \in FailStatuses, omit \in BOOLEAN :
          BatchResponds(failAt, failStatus, omit)
    \/ \E ok \in BOOLEAN : FdChildren(ok)
    \/ \E ok \in BOOLEAN : FdAttrs(ok)
    \/ \E ok \in BOOLEAN : CdAttrs(ok)

SpecMapper == Init /\ [][NextMapper]_vars

----------------------------------------------------------------------------
\* Single requests to the backend (piWebApiRequest outside a batch)

\* a WebId that names nothing in the store
MissingWebId == 99

\* what piWebApiRequest throws when the request gets no response, and when
\* the backend answers 404
NetworkError  == ThrownApi(normalizeError(FetchFailure))
NotFoundError == ThrownApi(normalizeError(HTTPError(404)))

\* the names of the model that start with DSM_PREFIX
ReservedNames == { "DSM__CONFIG", permissionsJson, metadataJson }

\* the body of a PATCH: the keys that are present, and their values
NoPatch == [hasName |-> FALSE, Name |-> Undefined,
            hasDescription |-> FALSE, Description |-> <<>>,
            hasConfig |-> FALSE, Config |-> ""]

\* PATCH attributes/{id}
PatchAttribute(a, id, patch) ==
    [a EXCEPT !.attrs = { IF x.id = id
                          THEN [x EXCEPT
                                  !.name = IF patch.hasName THEN patch.Name ELSE @,
                                  !.description = IF patch.hasDescription
                                                  THEN patch.Description ELSE @,
                                  !.config = IF patch.hasConfig THEN patch.Config ELSE @]
                          ELSE x : x \in @ }]

\* PUT attributes/{id}/value
PutValue(a, id, value) ==
    [a EXCEPT !.attrs = { IF x.id = id THEN [x EXCEPT !.hasValue = TRUE, !.value = value]
                          ELSE x : x \in @ }]

\* PATCH elements/{id}
PatchElement(a, id, patch) ==
    [a EXCEPT !.elems = { IF e.id = id
                          THEN [e EXCEPT
                                  !.name = IF patch.hasName THEN patch.Name ELSE @,
                                  !.description = IF patch.hasDescription
                                                  THEN patch.Description ELSE @]
                          ELSE e : e \in @ }]

\* POST elements/{id}/elements outside a batch
PostElement(a, parent, name, description) ==
    [a EXCEPT !.next = @ + 1,
              !.elems = @ \cup { [id |-> a.next, parent |-> parent, name |-> name,
                                  description |-> description] }]

\* an element and the elements below it
RECURSIVE Subtree(_, _)
Subtree(a, S) ==
    LET T == S \cup { e.id : e \in { x \in a.elems : x.parent \in S } }
    IN IF T = S THEN S ELSE Subtree(a, T)

\* the attributes of a set of elements, with their child attributes
RECURSIVE AttributesBelow(_, _)
AttributesBelow(a, S) ==
    LET T == S \cup { x.id : x \in { y \in a.attrs : y.owner \in S } }
    IN IF T = S THEN S ELSE AttributesBelow(a, T)

\* a DELETE that takes what is below the element and leaves the element
DeleteElementBelow(a, id) ==
    LET gone == AttributesBelow(a, Subtree(a, {id})) \ {id}
    IN [a EXCEPT !.elems = { e \in @ : e.id \notin gone },
                 !.attrs = { x \in @ : x.id \notin gone }]

\* DELETE elements/{id}: the element goes with everything below it
DeleteElement(a, id) ==
    LET gone == AttributesBelow(a, Subtree(a, {id}))
    IN [a EXCEPT !.elems = { e \in @ : e.id \notin gone },
                 !.attrs = { x \in @ : x.id \notin gone }]

\* the two-step batch of updateOrCreate...: POST the attribute, PUT its value
AttributePayload(owner, name, value) ==
    << Step("POST", "attributes", owner, 0, {}, name, <<>>, "", Garbage),
       Step("PUT", "value", 0, 1, {1}, "", <<>>, "", value) >>

----------------------------------------------------------------------------
\* User elements: getOrCreateUserElement (userelements.ts, naming.ts, afroot.ts)

MaxUserCalls == 2   \* calls of getOrCreateUserElement in one behaviour

Whitespace   == { " " }
InvalidChars == { "*", "?", ";", "{", "}", "[", "]", "|", "\\", "`", "'", "\"" }

\* s.replace(/\\/g, '_')
replaceBackslash(s) == [i \in DOMAIN s |-> IF s[i] = "\\" THEN "_" ELSE s[i]]

\* s.replace(/\s+/g, '_'): every run of whitespace becomes one underscore
RECURSIVE collapseWhitespace(_)
collapseWhitespace(s) ==
    IF s = <<>> THEN <<>>
    ELSE IF Head(s) \notin Whitespace THEN <<Head(s)>> \o collapseWhitespace(Tail(s))
    ELSE IF Len(s) > 1 /\ s[2] \in Whitespace THEN collapseWhitespace(Tail(s))
    ELSE <<"_">> \o collapseWhitespace(Tail(s))

\* s.replace(/_+$/, '')
RECURSIVE trimTrailingUnderscores(_)
trimTrailingUnderscores(s) ==
    IF s # <<>> /\ s[Len(s)] = "_"
    THEN trimTrailingUnderscores(SubSeq(s, 1, Len(s) - 1))
    ELSE s

\* sanitizeAfName (names of the model stay below maxNameLength)
sanitizeAfName(name) ==
    trimTrailingUnderscores(
        SelectSeq(collapseWhitespace(name), LAMBDA c : c \notin InvalidChars))

\* normalizeUsername with replaceBackslashWith '_' and uppercase true
normalizeUsername(username) == sanitizeAfName(toUpperCase(replaceBackslash(username)))

\* the identities that call in: name is userInfo.name, label the same name
\* as the one token it is in a description
UserInfos ==
    { [name |-> <<"d", "\\", "a">>, label |-> "d\\a", sid |-> "S-1"],
      [name |-> <<"D", "\\", "a", " ", " ">>, label |-> "D\\a  ", sid |-> "S-1"],
      [name |-> <<"d", "\\", "b", "*">>, label |-> "d\\b*", sid |-> "S-2"] }

\* the elements of a set in the order of their ids (the order of Items)
RECURSIVE ById(_)
ById(S) ==
    IF S = {} THEN <<>>
    ELSE LET e == CHOOSE x \in S : \A y \in S : x.id <= y.id
         IN <<e>> \o ById(S \ {e})

\* GET elements/{id}/elements?nameFilter=name: the filter ignores case
FilterElements(a, id, name) ==
    ById({ e \in a.elems : e.parent = id /\ toUpperCase(e.name) = toUpperCase(name) })

\* a findUserElement that never finds
exactMatchNever(items, normalizedName) == 0

\* findUserElement on a response: the first item whose upper-cased name is
\* the upper-cased normalized name, 0 for null
exactMatch(items, normalizedName) ==
    LET hits == SelectSeq(items, LAMBDA e : toUpperCase(e.name) = toUpperCase(normalizedName))
    IN IF hits = <<>> THEN 0 ELSE hits[1].id

FindRequest(rootWebId, normalizedName) ==
    Req("GET", "elements/{id}/elements?nameFilter", <<rootWebId, normalizedName>>)

\* getOrCreateUserElement once rootWebId is known: up to the await in
\* findUserElement
toFind(o, rootWebId) ==
    [op |-> [o EXCEPT !.pc = "find", !.target = rootWebId,
                      !.payload = UserElementPayload(rootWebId, o.input)],
     sent |-> <<FindRequest(rootWebId, o.input.name)>>]

\* getOrCreateUserElement(userInfo) up to its first await
getOrCreateUserElement(userInfo) ==
    /\ op.pc \in {"idle", "done"}
    /\ nOps < MaxUserCalls
    /\ LET input == [NoInput EXCEPT !.name = normalizeUsername(userInfo.name),
                                    !.originalName = userInfo.label,
                                    !.sid = userInfo.sid,
                                    !.identityType = "WindowsIdentity"]
           o     == [IdleOp EXCEPT !.kind = "getOrCreateUserElement", !.input = input]
       IN IF cachedRootWebId # 0
          THEN /\ op' = toFind(o, cachedRootWebId).op
               /\ requests' = toFind(o, cachedRootWebId).sent
          ELSE /\ op' = [o EXCEPT !.pc = "root"]
               /\ requests' = <<Req("GET", "elements/{id}", RootWebId)>>
    /\ nOps' = nOps + 1
    /\ Record
    /\ UNCHANGED <<af, cachedRootWebId, svcVars>>

\* a caller other than initializeAuth calls getOrCreateUserElement(userInfo)
StartGetOrCreateUserElement(userInfo) ==
    /\ getOrCreateUserElement(userInfo)
    /\ UNCHANGED storeVars

\* resolveAfRootWebId: the lookup by WebId settles, or after its failure the
\* lookup by path
RootResponds(ok) ==
    /\ op.pc \in {"root", "rootpath"}
    /\ IF ok
       THEN /\ cachedRootWebId' = RootWebId
            /\ op' = toFind(op, RootWebId).op
            /\ requests' = requests \o toFind(op, RootWebId).sent
       ELSE IF op.pc = "root"
       THEN /\ op' = [op EXCEPT !.pc = "rootpath"]
            /\ requests' = Append(requests, Req("GET", "elements?path", 0))
            /\ UNCHANGED cachedRootWebId
       ELSE /\ op' = Threw(op, ThrownError("Failed to resolve AF root element",
                                           Undefined, <<>>))
            /\ UNCHANGED <<requests, cachedRootWebId>>
    /\ UNCHANGED <<af, nOps, history, svcVars, storeVars>>

\* findUserElement settles: a match is returned, a miss or a failed request
\* (null) goes on to createUserElement
FindResponds(ok) ==
    /\ op.pc = "find"
    /\ LET found == IF ok THEN exactMatch(FilterElements(af, op.target, op.input.name),
                                          op.input.name)
                    ELSE 0
       IN IF found # 0
          THEN /\ op' = Returned(op, [NoResult EXCEPT !.id = found])
               /\ requests' = requests
          ELSE /\ op' = [op EXCEPT !.pc = "batch", !.lookupFailed = ~ok]
               /\ requests' = Append(requests, BatchRequest)
    /\ UNCHANGED <<af, nOps, history, cachedRootWebId, svcVars, storeVars>>

NextUser ==
    \/ \E userInfo \in UserInfos : StartGetOrCreateUserElement(userInfo)
    \/ \E ok \in BOOLEAN : RootResponds(ok)
    \/ \E ok \in BOOLEAN : FindResponds(ok)
    \/ \E e \in TransportErrors : BatchFails(e)
    \/ \E failAt \in 0..MaxSteps, failStatus \in FailStatuses, omit \in BOOLEAN :
          BatchResponds(failAt, failStatus, omit)

SpecUser == Init /\ [][NextUser]_vars

----------------------------------------------------------------------------
\* Validation (domain/dataframe.ts, domain/column.ts)

MaxNameLength == 255

\* the characters of the names and value sources that are written as one token
Chars(t) ==
    CASE t = ""     -> <<>>
      [] t = " "    -> <<" ">>
      [] t = "col1" -> <<"c", "o", "l", "1">>
      [] t = "col2" -> <<"c", "o", "l", "2">>
      [] t = "co*"  -> <<"c", "o", "*">>
      [] t = "tag1" -> <<"t", "a", "g", "1">>
      [] t = "tag2" -> <<"t", "a", "g", "2">>
      [] t = "DSM__CONFIG" ->
             <<"D", "S", "M", "_", "_", "C", "O", "N", "F", "I", "G">>

\* String.prototype.trim
RECURSIVE trim(_)
trim(s) ==
    IF s # <<>> /\ Head(s) \in Whitespace THEN trim(Tail(s))
    ELSE IF s # <<>> /\ s[Len(s)] \in Whitespace THEN trim(SubSeq(s, 1, Len(s) - 1))
    ELSE s

Valid == [valid |-> TRUE, error |-> Undefined]
Invalid(message) == [valid |-> FALSE, error |-> message]

\* a validation of names that lets every character pass
validateNameAnyChar(name) ==
    IF name = <<>> \/ trim(name) = <<>> THEN Invalid("Name is required")
    ELSE IF Len(name) > MaxNameLength THEN Invalid("Name must be 255 characters or less")
    ELSE Valid

\* validateDataFrameName and validateColumnName, on the characters of the name
validateName(name) ==
    IF name = <<>> \/ trim(name) = <<>> THEN Invalid("Name is required")
    ELSE IF Len(name) > MaxNameLength THEN Invalid("Name must be 255 characters or less")
    ELSE IF \E i \in DOMAIN name : name[i] \in InvalidChars
    THEN Invalid("Name contains invalid characters")
    ELSE Valid

\* `!value || value.trim().length === 0`
Blank(value) == value = Undefined \/ value = "" \/ trim(Chars(value)) = <<>>

validateValueSource(type, value) ==
    IF type = "PiTag" /\ Blank(value)
    THEN Invalid("Tag reference is required for PI Tag source")
    ELSE IF type = "FixedValue" /\ value = Undefined
    THEN Invalid("Value is required for Fixed Value source")
    ELSE IF type = "Formula" /\ Blank(value)
    THEN Invalid("Expression is required for Formula source")
    ELSE Valid

\* a service function throwing new Error(validation.error)
ThrowInvalid(o, validation) ==
    Threw([o EXCEPT !.invalid = TRUE], ThrownError(validation.error, Undefined, <<>>))

----------------------------------------------------------------------------
\* Columns: listColumns, getColumn, updateColumn (columns.ts)

MaxColumnCalls == 2   \* column calls in one behaviour

\* the request failed in transport, or the backend answered 404
RequestError(transport) == IF transport THEN NetworkError ELSE NotFoundError

\* getColumn(webId) up to its await
toGetColumn(o) ==
    [op |-> [o EXCEPT !.pc = "gc_get"],
     sent |-> <<Req("GET", "attributes/{id}", o.target)>>]

\* updateColumn: updatePayload
UpdatePatch(input) ==
    LET descParts == (IF Truthy(input.valueSourceType)
                      THEN <<Bracket(input.valueSourceType)>> ELSE <<>>)
                     \o (IF Truthy(input.valueSource)
                         THEN <<Text(input.valueSource)>> ELSE <<>>)
    IN [hasName |-> input.name # Undefined, Name |-> input.name,
        hasDescription |-> (input.valueSourceType # Undefined
                            \/ input.valueSource # Undefined) /\ descParts # <<>>,
        Description |-> descParts,
        hasConfig |-> input.valueSource # Undefined,
        Config |-> IF input.valueSource # Undefined THEN input.valueSource ELSE ""]

PatchEmpty(patch) == ~patch.hasName /\ ~patch.hasDescription /\ ~patch.hasConfig

\* updateColumn after the PATCH (or without one): the metadata, then getColumn
afterPatch(o) ==
    IF o.input.metadata.defined
    THEN [op |-> [o EXCEPT !.pc = "uc_find"],
          sent |-> <<Req("GET", "attributes/{id}/attributes?nameFilter", o.target)>>]
    ELSE toGetColumn(o)

\* updateColumn(webId, input) up to its first await
beginUpdateColumn(o) ==
    IF ~PatchEmpty(UpdatePatch(o.input))
    THEN [op |-> [o EXCEPT !.pc = "uc_patch"],
          sent |-> <<Req("PATCH", "attributes/{id}", o.target)>>]
    ELSE afterPatch(o)

ColumnTargets == { x.id : x \in Attributes(af, DfWebId) } \cup { MissingWebId }

UpdateColumnInputs ==
    { [NoInput EXCEPT !.valueSourceType = type, !.valueSource = source, !.metadata = meta] :
        type \in { Undefined, "Formula" }, source \in { Undefined, "tag2" },
        meta \in { NoMeta, Meta({<<"v", "2">>}) } }

CanStartColumn == op.pc \in {"idle", "done"} /\ nOps < MaxColumnCalls

StartUpdateColumn(id, input) ==
    /\ CanStartColumn
    /\ LET o == [IdleOp EXCEPT !.kind = "updateColumn", !.target = id, !.input = input]
       IN /\ op' = beginUpdateColumn(o).op
          /\ requests' = beginUpdateColumn(o).sent
    /\ nOps' = nOps + 1
    /\ Record
    /\ UNCHANGED <<af, cachedRootWebId, svcVars, storeVars>>

\* updateColumn: the PATCH of the attribute settles
UcPatch(ok) ==
    /\ op.pc = "uc_patch"
    /\ IF ok /\ op.target \in AttrIds(af)
       THEN /\ af' = PatchAttribute(af, op.target, UpdatePatch(op.input))
            /\ op' = afterPatch(op).op
            /\ requests' = requests \o afterPatch(op).sent
       ELSE /\ op' = Threw(op, RequestError(~ok))
            /\ UNCHANGED <<af, requests>>
    /\ UNCHANGED <<nOps, history, cachedRootWebId, svcVars, storeVars>>

\* updateOrCreateConfigAttribute: the search for DSM__CONFIG settles
UcFind(ok) ==
    /\ op.pc = "uc_find"
    /\ LET items == ById({ x \in Attributes(af, op.target) : x.name = "DSM__CONFIG" })
       IN IF ~(ok /\ op.target \in AttrIds(af))
          THEN /\ op' = Threw(op, RequestError(~ok))
               /\ requests' = requests
          ELSE IF items # <<>>
          THEN /\ op' = [op EXCEPT !.pc = "uc_put", !.metaId = items[1].id]
               /\ requests' = Append(requests, Req("PUT", "attributes/{id}/value", items[1].id))
          ELSE /\ op' = [op EXCEPT !.pc = "uc_batch",
                                   !.payload = AttributePayload(op.target, "DSM__CONFIG",
                                                   stringify(op.input.metadata.pairs))]
               /\ requests' = Append(requests, BatchRequest)
    /\ UNCHANGED <<af, nOps, history, cachedRootWebId, svcVars, storeVars>>

\* updateOrCreateConfigAttribute: the PUT of the value settles
UcPut(ok) ==
    /\ op.pc = "uc_put"
    /\ IF ok
       THEN /\ af' = PutValue(af, op.metaId, stringify(op.input.metadata.pairs))
            /\ op' = toGetColumn(op).op
            /\ requests' = requests \o toGetColumn(op).sent
       ELSE /\ op' = Threw(op, NetworkError)
            /\ UNCHANGED <<af, requests>>
    /\ UNCHANGED <<nOps, history, cachedRootWebId, svcVars, storeVars>>

\* updateOrCreateConfigAttribute: the batch settles; its response map is not
\* looked at
UcBatch(ok, failAt, failStatus) ==
    /\ op.pc = "uc_batch"
    /\ failAt \in 0..Len(op.payload)
    /\ IF ok
       THEN LET r == ExecBatch(af, op.payload, 1, <<>>,
                               [failAt |-> failAt, failStatus |-> failStatus, omit |-> FALSE])
            IN /\ af' = r.af
               /\ op' = toGetColumn([op EXCEPT !.hasResp = TRUE, !.resp = r.resp]).op
               /\ requests' = requests \o toGetColumn(op).sent
       ELSE /\ failAt = 0
            /\ op' = Threw(op, NetworkError)
            /\ UNCHANGED <<af, requests>>
    /\ UNCHANGED <<nOps, history, cachedRootWebId, svcVars, storeVars>>

StartGetColumn(id) ==
    /\ CanStartColumn
    /\ LET o == [IdleOp EXCEPT !.kind = "getColumn", !.target = id]
       IN /\ op' = toGetColumn(o).op
          /\ requests' = toGetColumn(o).sent
    /\ nOps' = nOps + 1
    /\ Record
    /\ UNCHANGED <<af, cachedRootWebId, svcVars, storeVars>>

\* getColumn: the GET of the attribute settles; then fetchColumnDetails
GcGet(ok) ==
    /\ op.pc = "gc_get"
    /\ IF ok /\ op.target \in AttrIds(af)
       THEN /\ op' = [op EXCEPT !.pc = "cd_attrs",
                                !.element = AttrContent(AttrById(af, op.target))]
            /\ requests' = Append(requests, Req("GET", "attributes/{id}/attributes", op.target))
       ELSE /\ op' = Threw(op, RequestError(~ok))
            /\ requests' = requests
    /\ UNCHANGED <<af, nOps, history, cachedRootWebId, svcVars, storeVars>>

StartListColumns ==
    /\ CanStartColumn
    /\ op' = [IdleOp EXCEPT !.kind = "listColumns", !.pc = "lc_list", !.target = DfWebId]
    /\ requests' = <<Req("GET", "elements/{id}/attributes", DfWebId)>>
    /\ nOps' = nOps + 1
    /\ Record
    /\ UNCHANGED <<af, cachedRootWebId, svcVars, storeVars>>

\* listColumns: the listing settles; the reserved attributes are skipped
LcList(ok) ==
    /\ op.pc = "lc_list"
    /\ LET items == ById({ x \in Attributes(af, op.target) : x.name \notin ReservedNames })
       IN IF ~(ok /\ op.target \in ElemIds(af))
          THEN /\ op' = Threw(op, RequestError(~ok))
               /\ requests' = requests
          ELSE IF items = <<>>
          THEN /\ op' = [op EXCEPT !.pc = "done", !.outcome = "returned"]
               /\ requests' = requests
          ELSE /\ op' = [op EXCEPT !.pc = "lc_item", !.items = items]
               /\ requests' = Append(requests,
                                     Req("GET", "attributes/{id}/attributes", items[1].id))
    /\ UNCHANGED <<af, nOps, history, cachedRootWebId, svcVars, storeVars>>

\* listColumns: fetchColumnDetails(attr, order) of the next item settles
LcItem(ok) ==
    /\ op.pc = "lc_item"
    /\ LET x      == Head(op.items)
           column == ColumnOf(AttrContent(x),
                              IF ok THEN Attributes(af, x.id) ELSE {}, Len(op.list))
           rest   == Tail(op.items)
           o      == [op EXCEPT !.items = rest, !.list = Append(@, column),
                                !.detailsFailed = @ \/ ~ok]
       IN IF rest = <<>>
          THEN /\ op' = [o EXCEPT !.pc = "done", !.outcome = "returned"]
               /\ requests' = requests
          ELSE /\ op' = o
               /\ requests' = Append(requests,
                                     Req("GET", "attributes/{id}/attributes", rest[1].id))
    /\ UNCHANGED <<af, nOps, history, cachedRootWebId, svcVars, storeVars>>

\* createColumn as one of several column calls
StartNextCreateColumn(name, type, source, meta) ==
    /\ CanStartColumn
    /\ op' = beginCreateColumn(ColumnInput(name, type, source, meta)).op
    /\ requests' = beginCreateColumn(ColumnInput(name, type, source, meta)).sent
    /\ nOps' = nOps + 1
    /\ Record
    /\ UNCHANGED <<af, cachedRootWebId, svcVars, storeVars>>

\* Column service (services/columns.ts)

MaxServiceCalls == 2   \* calls of the service layer in one behaviour

CanStartService == op.pc \in {"idle", "done"} /\ nOps < MaxServiceCalls

\* createNewColumn(dataframeId, input): both validations, then createColumn
StartCreateNewColumn(name, type, source, meta) ==
    /\ CanStartService
    /\ LET input == ColumnInput(name, type, source, meta)
           o     == [IdleOp EXCEPT !.kind = "createColumn", !.target = DfWebId,
                                   !.input = input, !.service = TRUE]
           nameValidation   == validateName(Chars(name))
           sourceValidation == validateValueSource(type, source)
           begun == beginCreateColumn(input)
       IN IF ~nameValidation.valid
          THEN op' = ThrowInvalid(o, nameValidation) /\ requests' = <<>>
          ELSE IF ~sourceValidation.valid
          THEN op' = ThrowInvalid(o, sourceValidation) /\ requests' = <<>>
          ELSE op' = [begun.op EXCEPT !.service = TRUE] /\ requests' = begun.sent
    /\ nOps' = nOps + 1
    /\ Record
    /\ UNCHANGED <<af, cachedRootWebId, svcVars, storeVars>>

\* `input.valueSourceType !== undefined || input.valueSource !== undefined`
SourceChanged(input) == input.valueSourceType # Undefined \/ input.valueSource # Undefined

\* updateExistingColumn(id, input) up to its first await (or throw)
StartUpdateExistingColumn(id, input) ==
    /\ CanStartService
    /\ LET o == [IdleOp EXCEPT !.kind = "updateColumn", !.target = id,
                               !.input = input, !.service = TRUE]
           nameValidation == validateName(Chars(input.name))
       IN IF input.name # Undefined /\ ~nameValidation.valid
          THEN op' = ThrowInvalid(o, nameValidation) /\ requests' = <<>>
          ELSE IF SourceChanged(input)
          THEN /\ op' = [o EXCEPT !.pc = "sv_get"]
               /\ requests' = <<Req("GET", "attributes/{id}", id)>>
          ELSE op' = beginUpdateColumn(o).op /\ requests' = beginUpdateColumn(o).sent
    /\ nOps' = nOps + 1
    /\ Record
    /\ UNCHANGED <<af, cachedRootWebId, svcVars, storeVars>>

\* updateExistingColumn: the GET of apiGetColumn(id) settles
SvGet(ok) ==
    /\ op.pc = "sv_get"
    /\ IF ok /\ op.target \in AttrIds(af)
       THEN /\ op' = [op EXCEPT !.pc = "sv_attrs",
                                !.element = AttrContent(AttrById(af, op.target))]
            /\ requests' = Append(requests, Req("GET", "attributes/{id}/attributes", op.target))
       ELSE /\ op' = Threw(op, RequestError(~ok))
            /\ requests' = requests
    /\ UNCHANGED <<af, nOps, history, cachedRootWebId, svcVars, storeVars>>

\* updateExistingColumn: apiGetColumn(id) returns the current column; the
\* value source is validated, then updateColumn
SvAttrs(ok) ==
    /\ op.pc = "sv_attrs"
    /\ LET current   == ColumnOf(op.element,
                                 IF ok THEN Attributes(af, op.target) ELSE {}, 0)
           newType   == IF op.input.valueSourceType # Undefined
                        THEN op.input.valueSourceType ELSE current.valueSourceType
           newSource == IF op.input.valueSource # Undefined
                        THEN op.input.valueSource ELSE current.valueSource
           sourceValidation == validateValueSource(newType, newSource)
       IN IF ~sourceValidation.valid
          THEN op' = ThrowInvalid(op, sourceValidation) /\ requests' = requests
          ELSE /\ op' = beginUpdateColumn(op).op
               /\ requests' = requests \o beginUpdateColumn(op).sent
    /\ UNCHANGED <<af, nOps, history, cachedRootWebId, svcVars, storeVars>>

\* the column calls: the failures of a batch are those of one status
NextColumns ==
    \/ \E name \in { "col1", "col2" }, type \in { "PiTag", "FixedValue" } :
          StartNextCreateColumn(name, type, "tag1", Meta({<<"v", "1">>}))
    \/ \E ok \in BOOLEAN : LookupResponds(ok)
    \/ BatchFails(FetchFailure)
    \/ \E failAt \in 0..MaxSteps : BatchResponds(failAt, 500, FALSE)
    \/ \E ok \in BOOLEAN : CdAttrs(ok)
    \/ StartListColumns
    \/ \E ok \in BOOLEAN : LcList(ok)
    \/ \E ok \in BOOLEAN : LcItem(ok)
    \/ \E id \in ColumnTargets : StartGetColumn(id)
    \/ \E ok \in BOOLEAN : GcGet(ok)
    \/ \E id \in ColumnTargets, input \in UpdateColumnInputs : StartUpdateColumn(id, input)
    \/ \E ok \in BOOLEAN : UcPatch(ok)
    \/ \E ok \in BOOLEAN : UcFind(ok)
    \/ \E ok \in BOOLEAN : UcPut(ok)
    \/ \E ok \in BOOLEAN, failAt \in 0..MaxSteps : UcBatch(ok, failAt, 500)

SpecColumns == Init /\ [][NextColumns]_vars


----------------------------------------------------------------------------
\* DataFrames: getDataFrame, updateDataFrame, deleteDataFrame (dataframes.ts)

MaxDataFrameCalls == 2   \* DataFrame calls in one behaviour

CanStartDataFrame == op.pc \in {"idle", "done"} /\ nOps < MaxDataFrameCalls

\* the WebIds a caller holds: the DataFrames of the user, those it has
\* deleted, and a WebId that names nothing
DataFrameTargets ==
    { e.id : e \in { x \in af.elems : x.parent = UserWebId } }
      \cup { Calls[i].call.target :
                i \in { j \in 1..Len(Calls) : Calls[j].call.kind = "deleteDataFrame" } }
      \cup { MissingWebId }

\* createDataFrame as one of several DataFrame calls
StartNextCreateDataFrame(name, mode, meta, sid) ==
    /\ CanStartDataFrame
    /\ op' = beginCreateDataFrame(DataFrameInput(name, mode, meta), sid)
    /\ requests' = <<BatchRequest>>
    /\ nOps' = nOps + 1
    /\ Record
    /\ UNCHANGED <<af, cachedRootWebId, svcVars, storeVars>>

\* getDataFrame(webId) up to its await
toGetDataFrame(o) ==
    [op |-> [o EXCEPT !.pc = "gd_get"], sent |-> <<Req("GET", "elements/{id}", o.target)>>]

StartGetDataFrame(id) ==
    /\ CanStartDataFrame
    /\ LET o == [IdleOp EXCEPT !.kind = "getDataFrame", !.target = id]
       IN /\ op' = toGetDataFrame(o).op
          /\ requests' = toGetDataFrame(o).sent
    /\ nOps' = nOps + 1
    /\ Record
    /\ UNCHANGED <<af, cachedRootWebId, svcVars, storeVars>>

\* getDataFrame: the GET of the element settles; then fetchDataFrameDetails
GdGet(ok) ==
    /\ op.pc = "gd_get"
    /\ IF ok /\ op.target \in ElemIds(af)
       THEN /\ op' = [op EXCEPT !.pc = "fd_children",
                                !.element = ElemContent(ElemById(af, op.target))]
            /\ requests' = Append(requests,
                                  Req("GET", "elements/{id}/elements?nameFilter", op.target))
       ELSE /\ op' = Threw(op, RequestError(~ok))
            /\ requests' = requests
    /\ UNCHANGED <<af, nOps, history, cachedRootWebId, svcVars, storeVars>>

\* deleteDataFrame(webId) up to its await
StartDeleteDataFrame(id) ==
    /\ CanStartDataFrame
    /\ op' = [IdleOp EXCEPT !.kind = "deleteDataFrame", !.pc = "dd_delete", !.target = id]
    /\ requests' = <<Req("DELETE", "elements/{id}", id)>>
    /\ nOps' = nOps + 1
    /\ Record
    /\ UNCHANGED <<af, cachedRootWebId, svcVars, storeVars>>

\* deleteDataFrame: the DELETE settles
DdDelete(ok) ==
    /\ op.pc = "dd_delete"
    /\ IF ok /\ op.target \in ElemIds(af)
       THEN /\ af' = DeleteElement(af, op.target)
            /\ op' = [op EXCEPT !.pc = "done", !.outcome = "returned"]
       ELSE /\ op' = Threw(op, RequestError(~ok))
            /\ af' = af
    /\ UNCHANGED <<requests, nOps, history, cachedRootWebId, svcVars, storeVars>>

\* an absent name where names are sequences of characters
UndefinedName == <<Undefined>>

\* updateDataFrame: updatePayload of the element
ElementPatch(input) ==
    [NoPatch EXCEPT
       !.hasName = input.name # UndefinedName,
       !.Name = toUpperCase(input.name),
       !.hasDescription = input.description # Undefined,
       !.Description = IF input.description # Undefined
                       THEN <<Text(input.description)>> ELSE <<>>]

\* updateDataFrame: the attribute writes that are asked for, permissions first
AttributeWrites(input) ==
    (IF input.permissions.defined
     THEN <<[name |-> permissionsJson, value |-> stringify(input.permissions.pairs)]>>
     ELSE <<>>)
    \o (IF input.metadata.defined
        THEN <<[name |-> metadataJson, value |-> stringify(input.metadata.pairs)]>>
        ELSE <<>>)

\* updateDataFrame after the PATCH (or without one)
afterElementPatch(o) ==
    IF o.input.permissions.defined \/ o.input.metadata.defined
    THEN [op |-> [o EXCEPT !.pc = "ud_meta_find", !.items = AttributeWrites(o.input)],
          sent |-> <<Req("GET", "elements/{id}/elements?nameFilter", o.target)>>]
    ELSE toGetDataFrame(o)

\* updateDataFrame: the next attribute write, or getDataFrame after the last
toAttributeWrite(o) ==
    IF o.items = <<>> THEN toGetDataFrame(o)
    ELSE [op |-> [o EXCEPT !.pc = "ud_attr_find"],
          sent |-> <<Req("GET", "elements/{id}/attributes?nameFilter", o.metaId)>>]

\* updateDataFrame(webId, input) up to its first await
beginUpdateDataFrame(o) ==
    IF o.input.name # UndefinedName \/ o.input.description # Undefined
    THEN [op |-> [o EXCEPT !.pc = "ud_patch"],
          sent |-> <<Req("PATCH", "elements/{id}", o.target)>>]
    ELSE afterElementPatch(o)

UpdateDataFrameInput(name, permissions, meta) ==
    [NoInput EXCEPT !.name = name, !.permissions = permissions, !.metadata = meta]

StartUpdateDataFrame(id, input) ==
    /\ CanStartDataFrame
    /\ LET o == [IdleOp EXCEPT !.kind = "updateDataFrame", !.target = id, !.input = input]
       IN /\ op' = beginUpdateDataFrame(o).op
          /\ requests' = beginUpdateDataFrame(o).sent
    /\ nOps' = nOps + 1
    /\ Record
    /\ UNCHANGED <<af, cachedRootWebId, svcVars, storeVars>>

\* updateDataFrame: the PATCH of the element settles
UdPatch(ok) ==
    /\ op.pc = "ud_patch"
    /\ IF ok /\ op.target \in ElemIds(af)
       THEN /\ af' = PatchElement(af, op.target, ElementPatch(op.input))
            /\ op' = afterElementPatch(op).op
            /\ requests' = requests \o afterElementPatch(op).sent
       ELSE /\ op' = Threw(op, RequestError(~ok))
            /\ UNCHANGED <<af, requests>>
    /\ UNCHANGED <<nOps, history, cachedRootWebId, svcVars, storeVars>>

\* getOrCreateMetadataElement: the search for the reserved child settles
UdMetaFind(ok) ==
    /\ op.pc = "ud_meta_find"
    /\ LET items == ById(ChildElements(af, op.target, MetadataElementName))
       IN IF ~(ok /\ op.target \in ElemIds(af))
          THEN /\ op' = Threw(op, RequestError(~ok))
               /\ requests' = requests
          ELSE IF items # <<>>
          THEN LET o == [op EXCEPT !.metaId = items[1].id]
               IN /\ op' = toAttributeWrite(o).op
                  /\ requests' = requests \o toAttributeWrite(o).sent
          ELSE /\ op' = [op EXCEPT !.pc = "ud_meta_create"]
               /\ requests' = Append(requests, Req("POST", "elements/{id}/elements", op.target))
    /\ UNCHANGED <<af, nOps, history, cachedRootWebId, svcVars, storeVars>>

\* getOrCreateMetadataElement: the POST of the reserved child settles
UdMetaCreate(ok) ==
    /\ op.pc = "ud_meta_create"
    /\ IF ok
       THEN LET o == [op EXCEPT !.metaId = af.next]
            IN /\ af' = PostElement(af, op.target, MetadataElementName,
                                    <<Text("DSM system metadata")>>)
               /\ op' = toAttributeWrite(o).op
               /\ requests' = requests \o toAttributeWrite(o).sent
       ELSE /\ op' = Threw(op, NetworkError)
            /\ UNCHANGED <<af, requests>>
    /\ UNCHANGED <<nOps, history, cachedRootWebId, svcVars, storeVars>>

\* updateOrCreateAttributeOnElement: the search for the attribute settles
UdAttrFind(ok) ==
    /\ op.pc = "ud_attr_find"
    /\ LET write == Head(op.items)
           items == ById({ x \in Attributes(af, op.metaId) : x.name = write.name })
       IN IF ~ok
          THEN /\ op' = Threw(op, NetworkError)
               /\ requests' = requests
          ELSE IF items # <<>>
          THEN /\ op' = [op EXCEPT !.pc = "ud_attr_put", !.attrId = items[1].id]
               /\ requests' = Append(requests,
                                     Req("PUT", "attributes/{id}/value", items[1].id))
          ELSE /\ op' = [op EXCEPT !.pc = "ud_attr_batch",
                                   !.payload = AttributePayload(op.metaId, write.name,
                                                                write.value)]
               /\ requests' = Append(requests, BatchRequest)
    /\ UNCHANGED <<af, nOps, history, cachedRootWebId, svcVars, storeVars>>

\* updateOrCreateAttributeOnElement: the PUT of the value settles
UdAttrPut(ok) ==
    /\ op.pc = "ud_attr_put"
    /\ IF ok
       THEN LET o == [op EXCEPT !.items = Tail(@)]
            IN /\ af' = PutValue(af, op.attrId, Head(op.items).value)
               /\ op' = toAttributeWrite(o).op
               /\ requests' = requests \o toAttributeWrite(o).sent
       ELSE /\ op' = Threw(op, NetworkError)
            /\ UNCHANGED <<af, requests>>
    /\ UNCHANGED <<nOps, history, cachedRootWebId, svcVars, storeVars>>

\* updateOrCreateAttributeOnElement: the batch settles; its response map is
\* not looked at
UdAttrBatch(ok, failAt, failStatus) ==
    /\ op.pc = "ud_attr_batch"
    /\ failAt \in 0..Len(op.payload)
    /\ IF ok
       THEN LET r == ExecBatch(af, op.payload, 1, <<>>,
                               [failAt |-> failAt, failStatus |-> failStatus, omit |-> FALSE])
                o == [op EXCEPT !.items = Tail(@), !.hasResp = TRUE, !.resp = r.resp]
            IN /\ af' = r.af
               /\ op' = toAttributeWrite(o).op
               /\ requests' = requests \o toAttributeWrite(o).sent
       ELSE /\ failAt = 0
            /\ op' = Threw(op, NetworkError)
            /\ UNCHANGED <<af, requests>>
    /\ UNCHANGED <<nOps, history, cachedRootWebId, svcVars, storeVars>>


\* The store is shared with other tools: what they may have done to the
\* reserved child of the existing DataFrame and to its permissions attribute
\* before the first call
StoredPermissions(a) ==
    { x \in a.attrs : /\ x.name = permissionsJson
                      /\ x.owner \in { e.id : e \in ChildElements(a, DfWebId,
                                                                  MetadataElementName) } }

Tampered(a, how) ==
    CASE how = "no child" ->
           [a EXCEPT !.elems = { e \in @ : e \notin ChildElements(a, DfWebId,
                                                                  MetadataElementName) }]
      [] how = "no attribute" ->
           [a EXCEPT !.attrs = @ \ StoredPermissions(a)]
      [] how = "no value" ->
           [a EXCEPT !.attrs = { IF x \in StoredPermissions(a)
                                 THEN [x EXCEPT !.hasValue = FALSE, !.value = Garbage]
                                 ELSE x : x \in @ }]
      [] how = "not JSON" ->
           [a EXCEPT !.attrs = { IF x \in StoredPermissions(a)
                                 THEN [x EXCEPT !.hasValue = TRUE, !.value = Garbage]
                                 ELSE x : x \in @ }]
      [] how = "JSON without mode" ->
           [a EXCEPT !.attrs = { IF x \in StoredPermissions(a)
                                 THEN [x EXCEPT !.hasValue = TRUE,
                                                !.value = stringify({<<"ownerSid", "S-1">>})]
                                 ELSE x : x \in @ }]

Tamperings == { "no child", "no attribute", "no value", "not JSON", "JSON without mode" }

StoredElsewhere(how) ==
    /\ op.pc = "idle" /\ nOps = 0
    /\ af' = Tampered(af, how)
    /\ UNCHANGED <<op, requests, nOps, history, cachedRootWebId, svcVars, storeVars>>

UpdateDataFrameInputs ==
    { UpdateDataFrameInput(<<"c">>, NoMeta, Meta({<<"b", "2">>})),
      UpdateDataFrameInput(UndefinedName,
                           Meta({<<"mode", "PUBLIC">>, <<"ownerSid", "S-9">>}), NoMeta) }

\* the DataFrame calls: the failures of a batch are those of one status
NextDataFrames ==
    \/ StartNextCreateDataFrame(<<"a", "b">>, Undefined, Meta({<<"a", "1">>}), "S-2")
    \/ StartNextCreateDataFrame(<<"a", "b">>, "PUBLIC", NoMeta, "S-2")
    \/ BatchFails(FetchFailure)
    \/ \E failAt \in 0..MaxSteps : BatchResponds(failAt, 500, FALSE)
    \/ \E ok \in BOOLEAN : FdChildren(ok)
    \/ \E ok \in BOOLEAN : FdAttrs(ok)
    \/ \E id \in DataFrameTargets : StartGetDataFrame(id)
    \/ \E ok \in BOOLEAN : GdGet(ok)
    \/ \E id \in DataFrameTargets : StartDeleteDataFrame(id)
    \/ \E ok \in BOOLEAN : DdDelete(ok)
    \/ \E id \in DataFrameTargets, input \in UpdateDataFrameInputs :
          StartUpdateDataFrame(id, input)
    \/ \E ok \in BOOLEAN : UdPatch(ok)
    \/ \E ok \in BOOLEAN : UdMetaFind(ok)
    \/ \E ok \in BOOLEAN : UdMetaCreate(ok)
    \/ \E ok \in BOOLEAN : UdAttrFind(ok)
    \/ \E ok \in BOOLEAN : UdAttrPut(ok)
    \/ \E ok \in BOOLEAN, failAt \in 0..MaxSteps : UdAttrBatch(ok, failAt, 500)

SpecDataFrames == Init /\ [][NextDataFrames]_vars

\* reads of a DataFrame whose stored details other tools have changed
NextStored ==
    \/ \E how \in Tamperings : StoredElsewhere(how)
    \/ \E id \in DataFrameTargets : StartGetDataFrame(id)
    \/ \E ok \in BOOLEAN : GdGet(ok)
    \/ \E ok \in BOOLEAN : FdChildren(ok)
    \/ \E ok \in BOOLEAN : FdAttrs(ok)

SpecStored == Init /\ [][NextStored]_vars

----------------------------------------------------------------------------
\* DataFrame service (services/dataframes.ts) and the service entry points

\* createNewDataFrame(input) with what the auth store holds: the name is
\* validated, then the auth store is looked at, then createDataFrame
StartCreateNewDataFrame(name, mode, meta, userElementWebId, sid) ==
    /\ CanStartService
    /\ LET input == DataFrameInput(name, mode, meta)
           o     == [IdleOp EXCEPT !.kind = "createDataFrame", !.target = userElementWebId,
                                   !.input = input, !.service = TRUE]
           validation == validateName(name)
       IN IF ~validation.valid
          THEN op' = ThrowInvalid(o, validation) /\ requests' = <<>>
          ELSE IF userElementWebId = 0
          THEN /\ op' = Threw(o, ThrownError(
                              "User element not initialized. Please authenticate first.",
                              Undefined, <<>>))
               /\ requests' = <<>>
          ELSE IF sid = Undefined
          THEN /\ op' = Threw(o, ThrownError("User not authenticated", Undefined, <<>>))
               /\ requests' = <<>>
          ELSE /\ op' = [beginCreateDataFrame(input, sid) EXCEPT !.service = TRUE]
               /\ requests' = <<BatchRequest>>
    /\ nOps' = nOps + 1
    /\ Record
    /\ UNCHANGED <<af, cachedRootWebId, svcVars, storeVars>>

\* updateExistingDataFrame(id, input): the name is validated when provided,
\* then updateDataFrame
StartUpdateExistingDataFrame(id, input) ==
    /\ CanStartService
    /\ LET o == [IdleOp EXCEPT !.kind = "updateDataFrame", !.target = id,
                               !.input = input, !.service = TRUE]
           validation == validateName(input.name)
       IN IF input.name # UndefinedName /\ ~validation.valid
          THEN op' = ThrowInvalid(o, validation) /\ requests' = <<>>
          ELSE op' = beginUpdateDataFrame(o).op /\ requests' = beginUpdateDataFrame(o).sent
    /\ nOps' = nOps + 1
    /\ Record
    /\ UNCHANGED <<af, cachedRootWebId, svcVars, storeVars>>

\* the names and value sources the entry points are called with
ServiceColumnNames    == { "col1", "co*", " " }
ServiceDataFrameNames == { <<"a", "b">>, <<>>, <<"a", "*">> }
ServiceColumnUpdates  ==
    { [NoInput EXCEPT !.name = "co*"],
      [NoInput EXCEPT !.valueSource = " "],
      [NoInput EXCEPT !.valueSource = "tag2"],
      [NoInput EXCEPT !.valueSourceType = "Formula"] }

NextEntryPoints ==
    \/ \E name \in ServiceColumnNames, type \in { "PiTag", "FixedValue" },
          source \in { Undefined, "tag1" } :
          StartCreateNewColumn(name, type, source, NoMeta)
    \/ \E ok \in BOOLEAN : LookupResponds(ok)
    \/ \E id \in ColumnTargets, input \in ServiceColumnUpdates :
          StartUpdateExistingColumn(id, input)
    \/ \E ok \in BOOLEAN : SvGet(ok)
    \/ \E ok \in BOOLEAN : SvAttrs(ok)
    \/ \E ok \in BOOLEAN : UcPatch(ok)
    \/ \E ok \in BOOLEAN : GcGet(ok)
    \/ \E ok \in BOOLEAN : CdAttrs(ok)
    \/ \E name \in ServiceDataFrameNames, userElementWebId \in { 0, UserWebId },
          sid \in { Undefined, "S-2" } :
          StartCreateNewDataFrame(name, Undefined, NoMeta, userElementWebId, sid)
    \/ \E id \in DataFrameTargets, name \in { <<"c">>, <<"a", "*">> } :
          StartUpdateExistingDataFrame(id, UpdateDataFrameInput(name, NoMeta, NoMeta))
    \/ \E ok \in BOOLEAN : UdPatch(ok)
    \/ \E ok \in BOOLEAN : GdGet(ok)
    \/ \E ok \in BOOLEAN : FdChildren(ok)
    \/ \E ok \in BOOLEAN : FdAttrs(ok)
    \/ BatchFails(FetchFailure)
    \/ \E failAt \in { 0, 1 } : BatchResponds(failAt, 500, FALSE)

SpecEntryPoints == Init /\ [][NextEntryPoints]_vars


----------------------------------------------------------------------------
\* initializeAuth (services/auth.ts)

AnonymousUser ==
    UserInfo("Anonymous", <<"A", "n", "o", "n", "y", "m", "o", "u", "s">>, "Anonymous",
             FALSE, "")

\* what getUserInfo resolves with: an identity of the backend, authenticated
\* or not
AuthUserInfos ==
    { UserInfo("WindowsIdentity", u.name, u.label, a, u.sid) :
        u \in { v \in UserInfos : v.sid = "S-1" }, a \in BOOLEAN }

\* an Error with an empty message
EmptyError == RawError("Error", "", FALSE, 0)

\* what getUserInfo rejects with: the ApiError of piWebApiRequest, or the
\* TypeError of normalizeUserInfo on a body that is null
UserInfoErrors ==
    { normalizeError(e) : e \in { HTTPError(401), HTTPError(403), HTTPError(500),
                                  FetchFailure, EmptyError } }
      \cup { MalformedBody }

\* initializeAuth up to its first await
beginInitializeAuth(A) == setError(setLoading(A, TRUE), NoMessage)

\* the finally block
finallyInitializeAuth(A) == setLoading(A, FALSE)

\* a catch block that stores a message for every failure
catchUserInfoNoAuthKind(A, apiError) ==
    setError(A, Message("", IF apiError.message # "" THEN apiError.message
                            ELSE "Failed to load user info"))

\* the outer catch block
catchUserInfo(A, apiError) ==
    IF apiError.kind = "Auth"
    THEN setUser(A, AnonymousUser)
    ELSE setError(A, Message("", IF apiError.message # "" THEN apiError.message
                                 ELSE "Failed to load user info"))

\* the inner catch block
catchUserElement(A, message) ==
    setError(A, Message("Failed to initialize user element: ", message))

\* the TypeError of a call of a method the store does not define
NotAFunction == "authStore.setUserElementWebId is not a function"

\* App.vue (or a later caller) calls initializeAuth()
StartInitializeAuth ==
    /\ initAuth.pc \in {"idle", "done"}
    /\ initAuth.n < MaxAuthCalls
    /\ op.pc \in {"idle", "done"} /\ nOps < MaxUserCalls
    /\ authStore' = beginInitializeAuth(authStore)
    /\ initAuth' = [NoInitAuth EXCEPT !.pc = "userinfo", !.n = initAuth.n + 1]
    /\ UNCHANGED <<svcVars, tagSearchVars, raceVars, mapVars>>

\* getUserInfo rejects: the outer catch and finally
UserInfoFails(e) ==
    /\ initAuth.pc = "userinfo"
    /\ authStore' = finallyInitializeAuth(catchUserInfo(authStore, e))
    /\ initAuth' = [initAuth EXCEPT !.pc = "done", !.outcome = "returned",
                                    !.userInfoError = e]
    /\ UNCHANGED <<svcVars, tagSearchVars, raceVars, mapVars>>

\* getUserInfo resolves: setUser and, for an authenticated user, the call of
\* getOrCreateUserElement up to its first await
UserInfoResponds(userInfo) ==
    /\ initAuth.pc = "userinfo"
    /\ IF userInfo.isAuthenticated
       THEN /\ authStore' = setUser(authStore, userInfo)
            /\ initAuth' = [initAuth EXCEPT !.pc = "element"]
            /\ getOrCreateUserElement(userInfo)
            /\ UNCHANGED <<tagSearchVars, raceVars>>
       ELSE /\ authStore' = finallyInitializeAuth(setUser(authStore, userInfo))
            /\ initAuth' = [initAuth EXCEPT !.pc = "done", !.outcome = "returned"]
            /\ UNCHANGED <<svcVars, tagSearchVars, raceVars, mapVars>>

\* getOrCreateUserElement settles: authStore.setUserElementWebId(id) (the
\* store of stores/auth.ts defines no such method: hasSetter is whether the
\* store in use does) or the inner catch, then finally
UserElementSettles(hasSetter) ==
    /\ initAuth.pc = "element"
    /\ op.pc = "done"
    /\ authStore' = finallyInitializeAuth(
          IF op.outcome = "returned"
          THEN IF hasSetter
               THEN [authStore EXCEPT !.userElementWebId = op.result.id]
               ELSE catchUserElement(authStore, NotAFunction)
          ELSE catchUserElement(authStore, op.thrown.message))
    /\ initAuth' = [initAuth EXCEPT !.pc = "done", !.outcome = "returned",
                                    !.elementFailed = (op.outcome = "threw")]
    /\ UNCHANGED <<svcVars, tagSearchVars, raceVars, mapVars>>

NextAuth ==
    \/ StartInitializeAuth
    \/ \E e \in UserInfoErrors : UserInfoFails(e)
    \/ \E userInfo \in AuthUserInfos : UserInfoResponds(userInfo)
    \/ \E hasSetter \in BOOLEAN : UserElementSettles(hasSetter)
    \/ \E ok \in BOOLEAN : RootResponds(ok)
    \/ \E ok \in BOOLEAN : FindResponds(ok)
    \/ BatchFails(FetchFailure)
    \/ \E failAt \in { 0, 1 } : BatchResponds(failAt, 500, FALSE)

SpecAuth == Init /\ [][NextAuth]_vars


----------------------------------------------------------------------------
\* getOrCreateUserElement called by several callers at once (two tabs, or
\* initializeAuth called again before the first call settled): each call is
\* the code of userelements.ts, the awaits are where the calls interleave

Racers == 1..MaxRacers

\* is there a child of the root whose upper-cased name is that of name ?
ExistsFor(a, rootWebId, name) ==
    \E e \in a.elems : e.parent = rootWebId /\ toUpperCase(e.name) = toUpperCase(name)

RaceUnchanged == UNCHANGED <<op, requests, nOps, history, svcVars, tagSearchVars, authVars>>

\* caller c calls getOrCreateUserElement(userInfo): up to its first await
RaceStart(c, userInfo) ==
    /\ racers[c].op.pc = "idle"
    /\ LET input == [NoInput EXCEPT !.name = normalizeUsername(userInfo.name),
                                    !.originalName = userInfo.label,
                                    !.sid = userInfo.sid,
                                    !.identityType = "WindowsIdentity"]
           o     == [IdleOp EXCEPT !.kind = "getOrCreateUserElement", !.input = input]
       IN racers' = [racers EXCEPT ![c] =
             IF cachedRootWebId # 0
             THEN [@ EXCEPT !.op = toFind(o, cachedRootWebId).op,
                            !.sent = toFind(o, cachedRootWebId).sent]
             ELSE [@ EXCEPT !.op = [o EXCEPT !.pc = "root"],
                            !.sent = <<Req("GET", "elements/{id}", RootWebId)>>]]
    /\ UNCHANGED <<af, cachedRootWebId>>
    /\ RaceUnchanged

\* resolveAfRootWebId of caller c settles
RaceRoot(c, ok) ==
    /\ racers[c].op.pc \in {"root", "rootpath"}
    /\ LET o == racers[c].op
       IN IF ok
          THEN /\ cachedRootWebId' = RootWebId
               /\ racers' = [racers EXCEPT ![c].op = toFind(o, RootWebId).op,
                                           ![c].sent = @ \o toFind(o, RootWebId).sent]
          ELSE IF o.pc = "root"
          THEN /\ racers' = [racers EXCEPT ![c].op = [o EXCEPT !.pc = "rootpath"],
                                           ![c].sent = Append(@, Req("GET", "elements?path", 0))]
               /\ UNCHANGED cachedRootWebId
          ELSE /\ racers' = [racers EXCEPT ![c].op =
                                Threw(o, ThrownError("Failed to resolve AF root element",
                                                     Undefined, <<>>))]
               /\ UNCHANGED cachedRootWebId
    /\ UNCHANGED af
    /\ RaceUnchanged

\* findUserElement of caller c settles
RaceFind(c, ok) ==
    /\ racers[c].op.pc = "find"
    /\ LET o     == racers[c].op
           found == IF ok THEN exactMatch(FilterElements(af, o.target, o.input.name),
                                          o.input.name)
                    ELSE 0
       IN racers' = [racers EXCEPT ![c] =
             IF found # 0
             THEN [@ EXCEPT !.op = Returned(o, [NoResult EXCEPT !.id = found]),
                            !.existed = ExistsFor(af, o.target, o.input.name)]
             ELSE [@ EXCEPT !.op = [o EXCEPT !.pc = "batch", !.lookupFailed = ~ok],
                            !.sent = Append(@, BatchRequest),
                            !.existed = ExistsFor(af, o.target, o.input.name)]]
    /\ UNCHANGED <<af, cachedRootWebId>>
    /\ RaceUnchanged

\* the backend executes the creation batch of caller c and answers
RaceBatch(c, failAt, failStatus) ==
    /\ racers[c].op.pc = "batch"
    /\ failAt \in 0..Len(racers[c].op.payload)
    /\ LET o == racers[c].op
           r == ExecBatch(af, o.payload, 1, <<>>,
                          [failAt |-> failAt, failStatus |-> failStatus, omit |-> FALSE])
       IN /\ af' = r.af
          /\ racers' = [racers EXCEPT ![c].op = afterBatch(o, r.resp).op,
                                      ![c].sent = @ \o afterBatch(o, r.resp).sent]
    /\ UNCHANGED cachedRootWebId
    /\ RaceUnchanged

\* two spellings of one identity
SameUser == { u \in UserInfos : u.sid = "S-1" }

NextRace ==
    \/ \E c \in Racers, userInfo \in SameUser : RaceStart(c, userInfo)
    \/ \E c \in Racers, ok \in BOOLEAN : RaceRoot(c, ok)
    \/ \E c \in Racers, ok \in BOOLEAN : RaceFind(c, ok)
    \/ \E c \in Racers, failAt \in { 0, 1 } : RaceBatch(c, failAt, 409)

SpecRace == Init /\ [][NextRace]_vars


\* The service used directly (as in the service tests)
NextService ==
    \/ \E q \in Queries : Search(q)
    \/ Cancel
    \/ \E i \in 1..Len(searches) : TimerFire(i)
    \/ \E i \in 1..Len(searches), o \in Outcomes : Respond(i, o)
    \/ Tick
    \/ RunSvcCont
    \/ RunAdopt

SpecService == Init /\ [][NextService]_vars

\* The service used directly, with what the event loop and the backend
\* guarantee: an armed timer fires, a request in flight settles, a queued
\* job runs
NextSettle ==
    \/ \E q \in Queries : Search(q)
    \/ Cancel
    \/ \E i \in 1..Len(searches) : TimerFire(i)
    \/ \E i \in 1..Len(searches), o \in Outcomes : Respond(i, o)
    \/ RunSvcCont
    \/ RunAdopt

SpecSettle ==
    /\ Init /\ [][NextSettle]_vars
    /\ WF_vars(\E i \in 1..Len(searches) : TimerFire(i))
    /\ WF_vars(\E i \in 1..Len(searches), o \in Outcomes : Respond(i, o))
    /\ WF_vars(RunSvcCont)
    /\ WF_vars(RunAdopt)

\* createNewColumn for names validateColumnName accepts, then listColumns
ListedColumnNames == { "col1", "DSM__CONFIG" }

NextListing ==
    \/ \E name \in ListedColumnNames, type \in { "PiTag", "FixedValue" } :
          StartCreateNewColumn(name, type, "tag1", NoMeta)
    \/ \E ok \in BOOLEAN : LookupResponds(ok)
    \/ BatchFails(FetchFailure)
    \/ \E failAt \in 0..MaxSteps : BatchResponds(failAt, 500, FALSE)
    \/ \E ok \in BOOLEAN : CdAttrs(ok)
    \/ StartListColumns
    \/ \E ok \in BOOLEAN : LcList(ok)
    \/ \E ok \in BOOLEAN : LcItem(ok)

SpecListing == Init /\ [][NextListing]_vars

\* two users whose names differ: one of domain d, one local account
DifferentUsers ==
    { [name |-> <<"d", "\\", "a">>, label |-> "d\\a", sid |-> "S-1"],
      [name |-> <<"d", "_", "a">>, label |-> "d_a", sid |-> "S-3"] }

\* getOrCreateUserElement called for one user after another
NextIdentities ==
    \/ \E userInfo \in DifferentUsers : StartGetOrCreateUserElement(userInfo)
    \/ \E ok \in BOOLEAN : RootResponds(ok)
    \/ \E ok \in BOOLEAN : FindResponds(ok)
    \/ \E e \in TransportErrors : BatchFails(e)
    \/ \E failAt \in 0..MaxSteps, failStatus \in FailStatuses, omit \in BOOLEAN :
          BatchResponds(failAt, failStatus, omit)

SpecIdentities == Init /\ [][NextIdentities]_vars

\* The store driving the default service instance, within one clock tick
NextStore ==
    \/ \E q \in Queries \cup {<<>>}, callbacks \in {0, 1} : StoreOpen(q, callbacks)
    \/ StoreClose
    \/ \E delta \in {-1, 1} : MoveSelection(delta)
    \/ \E q \in Queries \cup {<<>>} : StoreSearch(q)
    \/ \E i \in 1..Len(searches) : TimerFire(i)
    \/ \E i \in 1..Len(searches), o \in Outcomes : Respond(i, o)
    \/ RunSvcCont
    \/ RunAdopt
    \/ RunStoreCont

SpecStore == Init /\ [][NextStore]_vars

\* what a request of a session settles with: one match, or more than Limit
SessionOutcomes ==
    { [ok |-> TRUE, result |-> TagResult(Items(n), Limit), err |-> NoError] :
        n \in {1, Limit + 1} }

\* a session of the search dialog: opened, searched, navigated, and ended by
\* a selection, a cancel or a close
NextSession ==
    \/ \E q \in { <<>>, <<"a", "b">> }, callbacks \in {0, 1} : StoreOpen(q, callbacks)
    \/ StoreSearch(<<"A", "b">>)
    \/ \E i \in 1..Len(searches) : TimerFire(i)
    \/ \E i \in 1..Len(searches), o \in SessionOutcomes : Respond(i, o)
    \/ RunSvcCont
    \/ RunAdopt
    \/ RunStoreCont
    \/ \E delta \in {-1, 1} : MoveSelection(delta)
    \/ \E index \in -1..Limit : SetSelectedIndex(index)
    \/ SelectTag(1)
    \/ SelectCurrent
    \/ StoreCancel
    \/ StoreClose

SpecSession == Init /\ [][NextSession]_vars

TypeOK ==
    /\ debounceTimer \in 0..Len(searches)
    /\ abortController \in 0..Len(searches)
    /\ pendingResolve \in 0..Len(searches)
    /\ status \in {"idle", "loading", "success", "error"}

----------------------------------------------------------------------------
\* Properties

SearchIds == 1..Len(searches)
CallsFor(i) == { k \in 1..Len(calls) : calls[k].id = i }
IsLong(q) == Len(q) >= minChars
InFlight == { i \in SearchIds : searches[i].request = "inflight" }

\* C1: a backend call is only ever issued for the search that is the newest
\* one at that moment, at most once per search and with that search's query;
\* hence of searches that each arrive before the previous timer fired only
\* the last one reaches the backend (the earlier timers are cleared, and at
\* most the newest search has an armed timer).
C1_DebounceLastWins ==
    /\ \A k \in 1..Len(calls) :
          /\ calls[k].id = calls[k].latest
          /\ calls[k].query = searches[calls[k].id].query
          /\ \A m \in 1..Len(calls) : m < k => calls[m].id < calls[k].id
    /\ \A i \in SearchIds :
          /\ searches[i].timer = "armed" => i = Len(searches) /\ CallsFor(i) = {}
          /\ searches[i].timer = "cleared" => CallsFor(i) = {}
          /\ searches[i].timer = "fired" => Cardinality(CallsFor(i)) = 1
          /\ i < Len(searches) => searches[i].timer # "armed"

C1_Witness ==
    /\ Len(searches) = 3
    /\ \A i \in 1..3 : IsLong(searches[i].query)
    /\ searches[1].timer = "cleared"
    /\ searches[2].timer = "cleared"
    /\ searches[3].timer = "fired"
    /\ searches[2].query # searches[3].query
    /\ Len(calls) = 1
    /\ calls[1].query = searches[3].query

\* C2: a search whose timer was cleared before it fired (by cancel() or by a
\* newer search()) never reaches the backend, and the promise it returned is
\* resolved - never rejected - with {tags: [], hasMore: false}.
C2_CancelledResolvesEmpty ==
    \A i \in SearchIds :
        searches[i].timer = "cleared" =>
            /\ CallsFor(i) = {}
            /\ searches[i].request = "none"
            /\ searches[i].inner = Resolved(EmptyResult)
            /\ searches[i].outer.state # "rejected"
            /\ Idle => searches[i].outer = Resolved(EmptyResult)

C2_Witness ==
    /\ Idle
    /\ Len(searches) = 2
    /\ searches[1].timer = "cleared"
    /\ searches[1].outer = Resolved(EmptyResult)
    /\ searches[2].timer = "cleared"
    /\ searches[2].outer = Resolved(EmptyResult)
    /\ calls = <<>>

\* C3: at most one backend request of the instance is in flight.
C3_AtMostOneInFlight == Cardinality(InFlight) <= 1

C3_Witness ==
    \E i, j \in SearchIds :
        /\ i < j
        /\ searches[i].request = "aborted"
        /\ searches[j].request = "inflight"

\* C4 (as claimed): the continuation of a superseded store search does not
\* write results, hasMore, status or error.
C4_SupersededDiscarded ==
    [][ (HeadIs("StoreCont") /\ searches[Head(microtasks).id].stale)
          => UNCHANGED <<results, hasMore, status, error>> ]_vars

\* C5 (as claimed): a search whose request was aborted in flight resolves
\* with the empty result, and a search promise is rejected only when the
\* backend call failed with an error that is not an abort.
C5_AbortResolvesEmpty ==
    \A i \in SearchIds :
        /\ (searches[i].request = "aborted" /\ searches[i].outer.state # "pending")
              => searches[i].outer = Resolved(EmptyResult)
        /\ searches[i].outer.state = "rejected"
              => searches[i].request = "settled" /\ ~searches[i].response.ok

\* the completed searches whose cache entry covers search j
CacheSources(j) ==
    { i \in searches[j].doneAtIssue :
        /\ toLowerCase(searches[i].query) = toLowerCase(searches[j].query)
        /\ searches[j].issuedAt - searches[i].completedAt < CACHE_TTL }

Max(S) == CHOOSE x \in S : \A y \in S : y <= x

\* C6: with the cache enabled, a search issued within the TTL after a search
\* for the same query (up to letter case) completed with a backend result
\* starts no timer, causes no backend call and resolves, at once, with the
\* result stored by the latest such search; every such earlier search caused
\* exactly one backend call.
C6_CacheHit ==
    enableCache =>
        \A j \in SearchIds :
            CacheSources(j) # {} =>
                /\ searches[j].timer = "none"
                /\ searches[j].request = "none"
                /\ CallsFor(j) = {}
                /\ searches[j].outer =
                      Resolved(searches[Max(CacheSources(j))].response.result)
                /\ \A i \in CacheSources(j) : Cardinality(CallsFor(i)) = 1

C6_Witness ==
    /\ enableCache
    /\ \E j \in SearchIds : \E i \in CacheSources(j) :
          /\ searches[i].query # searches[j].query
          /\ searches[j].outer.state = "resolved"
          /\ searches[j].outer.result.tags # <<>>
          /\ Len(calls) = 1

\* C7: a store search with a query of at least minChars sets status
\* 'loading' and error null; when the service call settles, the store sets
\* status 'success' with the results and hasMore of the result, or, on a
\* rejection, status 'error' with a message (the error's own message when it
\* is an Error) and empty results.
C7_StoreSearchOutcome ==
    [][ /\ Len(searches') = Len(searches) + 1
           => /\ searches'[Len(searches')].caller = "store"
              /\ IsLong(searches'[Len(searches')].query)
              /\ status' = "loading"
              /\ error' = Null
        /\ HeadIs("StoreCont")
           => LET p == searches[Head(microtasks).id].outer
              IN /\ p.state # "pending"
                 /\ searches'[Head(microtasks).id].storeDone
                 /\ p.state = "resolved"
                      => /\ status' = "success"
                         /\ results' = p.result.tags
                         /\ hasMore' = p.result.hasMore
                 /\ p.state = "rejected"
                      => /\ status' = "error"
                         /\ error' # Null
                         /\ p.err.isError => error' = p.err.message
                         /\ results' = <<>>
      ]_vars

C7_Witness ==
    /\ Idle
    /\ Len(searches) = 2
    /\ searches[1].storeDone /\ searches[1].outer.state = "resolved"
    /\ searches[1].outer.result.tags # <<>>
    /\ searches[2].storeDone /\ searches[2].outer.state = "rejected"
    /\ searches[2].outer.err.isError
    /\ status = "error"
    /\ error = searches[2].outer.err.message
    /\ results = <<>>

----------------------------------------------------------------------------
\* Entity mappers: creation

FinalEntry == op.resp[FinalId(op)]

\* C8: createDataFrame, createColumn and the batch createUserElement return
\* an entity exactly when the entry of the final (GET read-back) step of the
\* batch response map has Status 200; when that entry is missing or has any
\* other status they throw an Error whose message embeds the whole map.
C8_FinalEntryDecides ==
    /\ op.outcome = "returned" =>
          /\ op.hasResp /\ FinalEntry.present /\ FinalEntry.Status = 200
          /\ op.result.id = FinalEntry.Content.WebId
    /\ (op.hasResp /\ FinalEntry.present /\ FinalEntry.Status = 200) =>
          op.outcome # "threw"
    /\ (op.hasResp /\ ~(FinalEntry.present /\ FinalEntry.Status = 200)) =>
          /\ op.pc = "done" /\ op.outcome = "threw"
          /\ op.thrown.kind = "Error"
          /\ op.thrown.message = FailureMessage(op.kind)
          /\ op.thrown.detail = op.input.name
          /\ op.thrown.batchResponse = op.resp

\* a batch whose first step succeeded and whose final entry is absent
C8_Witness ==
    /\ op.hasResp /\ op.outcome = "threw"
    /\ op.resp[1].Status = 201
    /\ ~FinalEntry.present
    /\ op.thrown.batchResponse = op.resp

CreatedAsAsked ==
    /\ op.result.name = toUpperCase(op.input.name)
    /\ Field(op.result.permissions, "mode") =
          (IF op.input.permissions = Undefined THEN "PRIVATE" ELSE op.input.permissions)
    /\ Field(op.result.permissions, "ownerSid") = op.ownerSid

\* C9 (as stated): every createDataFrame that returns gives a DataFrame whose
\* name is the upper-cased input name, whose permissions.mode is
\* input.permissions (PRIVATE when omitted) and whose permissions.ownerSid is
\* the ownerSid argument.
C9_CreatedAsAsked ==
    (op.kind = "createDataFrame" /\ op.outcome = "returned") => CreatedAsAsked

\* C9 (amended): that holds of every createDataFrame that returns after both
\* follow-up reads of fetchDataFrameDetails succeeded; when one of them fails
\* the DataFrame still carries the upper-cased name, with the default
\* permissions {mode: PRIVATE, ownerSid: ''}.
C9_CreatedAsAskedWhenRead ==
    (op.kind = "createDataFrame" /\ op.outcome = "returned") =>
        /\ op.result.name = toUpperCase(op.input.name)
        /\ ~op.detailsFailed => CreatedAsAsked
        /\ op.detailsFailed => op.result.permissions = DefaultPermissions

\* a returned DataFrame whose name was changed by the upper-casing and whose
\* mode comes from the omitted argument
C9_Witness ==
    /\ op.kind = "createDataFrame" /\ op.outcome = "returned"
    /\ ~op.detailsFailed
    /\ op.input.name = <<"a", "b">> /\ op.result.name = <<"A", "B">>
    /\ op.input.permissions = Undefined
    /\ op.result.permissions = { <<"mode", "PRIVATE">>, <<"ownerSid", "S-2">> }

NeedsLookup ==
    /\ op.kind = "createColumn"
    /\ op.input.valueSourceType = "PiTag"
    /\ Truthy(op.input.valueSource)

\* C10: createColumn with valueSourceType PiTag and a non-empty valueSource
\* first looks the tag up by path; when the lookup fails it throws
\* 'PI Tag not found: <path>' and has sent no batch or other request.
C10_TagLookupFirst ==
    /\ NeedsLookup =>
          /\ Len(requests) >= 1
          /\ requests[1] = Req("GET", "points?path", op.input.valueSource)
    /\ (op.kind = "createColumn" /\ op.lookupFailed) =>
          /\ op.pc = "done" /\ op.outcome = "threw"
          /\ op.thrown.kind = "Error"
          /\ op.thrown.message = "PI Tag not found"
          /\ op.thrown.detail = op.input.valueSource
          /\ Len(requests) = 1
          /\ ~op.hasResp

C10_Witness ==
    /\ NeedsLookup /\ op.lookupFailed
    /\ op.outcome = "threw"
    /\ op.thrown.detail = "tag1"

----------------------------------------------------------------------------
\* User elements

\* two consecutive finished calls of getOrCreateUserElement for one identity
\* that both returned, each with its lookup answered by the backend
SameIdentityTwice(i) ==
    /\ i + 1 <= Len(Calls)
    /\ Calls[i].call.kind = "getOrCreateUserElement"
    /\ Calls[i + 1].call.kind = "getOrCreateUserElement"
    /\ Calls[i].call.input = Calls[i + 1].call.input
    /\ Calls[i].call.outcome = "returned" /\ Calls[i + 1].call.outcome = "returned"
    /\ ~Calls[i].call.lookupFailed /\ ~Calls[i + 1].call.lookupFailed

\* C11: two sequential calls of getOrCreateUserElement with the same identity
\* (backend reachable) return the same element identifier, and the second
\* call creates nothing: it sends no batch and leaves the store as it was.
C11_GetOrCreateIdempotent ==
    \A i \in 1..Len(Calls) :
        SameIdentityTwice(i) =>
            /\ Calls[i + 1].call.result.id = Calls[i].call.result.id
            /\ ~Calls[i + 1].call.hasResp
            /\ Calls[i + 1].af = Calls[i].af

\* the first call created the element by its batch, the second found it
C11_Witness ==
    /\ SameIdentityTwice(1)
    /\ Calls[1].call.hasResp
    /\ Calls[1].call.result.id \notin ElemIds(InitialAf)
    /\ Calls[2].call.result.id = Calls[1].call.result.id

----------------------------------------------------------------------------
\* Columns

\* the first n finished calls are createColumn calls that returned, for
\* columns of different names
CreatedInSequence(n) ==
    /\ n <= Len(Calls)
    /\ \A j \in 1..n : /\ Calls[j].call.kind = "createColumn"
                       /\ Calls[j].call.outcome = "returned"
    /\ \A j, k \in 1..n : j # k => Calls[j].call.input.name # Calls[k].call.input.name

\* C12: columns created in sequence on the column-less DataFrame carry the
\* order values 0, 1, 2, ... (the number of columns that existed when each was
\* created), and a following listColumns returns them in that order with
\* those order values.
C12_ColumnOrder ==
    \A i \in 1..Len(Calls) :
        /\ CreatedInSequence(i) => Calls[i].call.result.order = i - 1
        /\ (CreatedInSequence(i - 1) /\ Calls[i].call.kind = "listColumns"
              /\ Calls[i].call.outcome = "returned") =>
                /\ Len(Calls[i].call.list) = i - 1
                /\ \A k \in 1..(i - 1) :
                      /\ Calls[i].call.list[k].id = Calls[k].call.result.id
                      /\ Calls[i].call.list[k].order = k - 1

\* C18: after updateColumn(id, {valueSource: v}) has succeeded, the Column it
\* returns has valueSource v, and so has the Column a getColumn(id) that
\* follows it returns.
C18_UpdatedValueSource ==
    \A i \in 1..Len(Calls) :
        (/\ Calls[i].call.kind = "updateColumn"
         /\ Calls[i].call.outcome = "returned"
         /\ Calls[i].call.input.valueSource # Undefined) =>
            /\ Calls[i].call.result.valueSource = Calls[i].call.input.valueSource
            /\ (/\ i + 1 <= Len(Calls)
                /\ Calls[i + 1].call.kind = "getColumn"
                /\ Calls[i + 1].call.target = Calls[i].call.target
                /\ Calls[i + 1].call.outcome = "returned") =>
                  Calls[i + 1].call.result.valueSource = Calls[i].call.input.valueSource

----------------------------------------------------------------------------
\* DataFrames

\* the i-th finished call returned a DataFrame after both reads of
\* fetchDataFrameDetails were answered
ReadBack(i) ==
    /\ i \in 1..Len(Calls)
    /\ Calls[i].call.outcome = "returned"
    /\ ~Calls[i].call.detailsFailed

\* the i-th finished call is a getDataFrame of the DataFrame id
GetOf(i, id) ==
    /\ ReadBack(i)
    /\ Calls[i].call.kind = "getDataFrame"
    /\ Calls[i].call.target = id

\* C13: a DataFrame created with metadata m and read back (by the result of
\* createDataFrame or by a getDataFrame that follows it) has metadata m, and
\* after updateDataFrame(id, {metadata: m'}) the DataFrame read back (by the
\* result of the update or by a getDataFrame that follows it) has metadata m'.
\* Reading back means that the reads of the stored details were answered.
C13_MetadataRoundTrip ==
    \A i \in 1..Len(Calls) :
        LET c == Calls[i].call
        IN /\ (ReadBack(i) /\ c.kind = "createDataFrame" /\ c.input.metadata.defined) =>
                 /\ c.result.metadata = c.input.metadata.pairs
                 /\ GetOf(i + 1, c.result.id) =>
                       Calls[i + 1].call.result.metadata = c.input.metadata.pairs
           /\ (ReadBack(i) /\ c.kind = "updateDataFrame" /\ c.input.metadata.defined) =>
                 /\ c.result.metadata = c.input.metadata.pairs
                 /\ GetOf(i + 1, c.target) =>
                       Calls[i + 1].call.result.metadata = c.input.metadata.pairs

\* the i-th finished call is a deleteDataFrame that returned, and the j-th a
\* later getDataFrame of the same id
ReadAfterDelete(i, j) ==
    /\ i \in 1..Len(Calls) /\ j \in 1..Len(Calls) /\ i < j
    /\ Calls[i].call.kind = "deleteDataFrame"
    /\ Calls[i].call.outcome = "returned"
    /\ Calls[j].call.kind = "getDataFrame"
    /\ Calls[j].call.target = Calls[i].call.target

\* C14: after deleteDataFrame(id) has succeeded, getDataFrame(id) rejects
\* with a normalized ApiError; whenever the backend answered the request
\* (the error carries an HTTP status) the status is 404 and the kind NotFound.
C14_DeletedIsNotFound ==
    \A i, j \in 1..Len(Calls) :
        ReadAfterDelete(i, j) =>
            /\ Calls[j].call.outcome = "threw"
            /\ Calls[j].call.thrown.kind = "ApiError"
            /\ Calls[j].call.thrown # NetworkError =>
                  /\ Calls[j].call.thrown.api.kind = "NotFound"
                  /\ Calls[j].call.thrown.api.httpStatus = 404
                  /\ ~Calls[j].call.thrown.api.retryable

\* the DataFrame that existed was deleted, and the read that followed was
\* answered by the backend
C14_Witness ==
    /\ ReadAfterDelete(1, 2)
    /\ Calls[1].call.target = DfWebId
    /\ DfWebId \in ElemIds(InitialAf)
    /\ Calls[2].call.thrown = NotFoundError

\* getDataFrame found the element and has finished
ReadExisting ==
    /\ op.kind = "getDataFrame"
    /\ op.pc = "done"
    /\ op.target \in ElemIds(af)
    /\ Len(requests) > 1

\* the stored details are absent or are not JSON
StoredUnset ==
    \E how \in { "no child", "no attribute", "no value", "not JSON" } :
        af = Tampered(InitialAf, how)

\* C15: reading a DataFrame whose element exists never throws because of
\* what is stored below it: when the reserved child, its attributes or their
\* JSON are absent or malformed, permissions are {mode: PRIVATE, ownerSid: ''}
\* and metadata is {}; every DataFrame returned has permissions with a mode
\* in {PRIVATE, PUBLIC, SHARED}.
C15_ReadNeverThrows ==
    ReadExisting =>
        /\ op.outcome = "returned"
        /\ StoredUnset => /\ op.result.permissions = DefaultPermissions
                          /\ op.result.metadata = {}
        /\ \E mode \in { "PRIVATE", "PUBLIC", "SHARED" } :
              <<"mode", mode>> \in op.result.permissions

\* C15 without its last clause: the read returns, with the defaults when the
\* stored details are unset
ReadReturnsDefaults ==
    ReadExisting =>
        /\ op.outcome = "returned"
        /\ StoredUnset => /\ op.result.permissions = DefaultPermissions
                          /\ op.result.metadata = {}

\* the i-th finished call read the DataFrame id back: an updateDataFrame or a
\* getDataFrame of it that returned after the stored details were read
ReadsOwner(i, id) ==
    /\ ReadBack(i)
    /\ Calls[i].call.kind \in { "updateDataFrame", "getDataFrame" }
    /\ Calls[i].call.target = id

\* C16: the ownerSid of a DataFrame is immutable: whatever updateDataFrame
\* calls were made, the permissions.ownerSid read back is the owner SID the
\* DataFrame was created with.
C16_OwnerSidImmutable ==
    \A i \in 1..Len(Calls) :
        /\ ReadsOwner(i, DfWebId) =>
              Field(Calls[i].call.result.permissions, "ownerSid")
                = Field(DataFrameOf(ElemContent(ElemById(InitialAf, DfWebId)),
                                    Attributes(InitialAf, 4)).permissions, "ownerSid")
        /\ \A k \in 1..(i - 1) :
              (/\ ReadBack(k)
               /\ Calls[k].call.kind = "createDataFrame"
               /\ ReadsOwner(i, Calls[k].call.result.id)) =>
                  Field(Calls[i].call.result.permissions, "ownerSid")
                    = Calls[k].call.ownerSid

----------------------------------------------------------------------------
\* Service entry points

\* a name the validations reject: blank, or with a character AF does not allow
BadName ==
    IF op.kind \in { "createColumn", "updateColumn" }
    THEN op.input.name \in { "co*", " " }
    ELSE op.input.name \in { <<>>, <<"a", "*">> }

\* a service entry point has finished
ServiceDone == op.service /\ op.pc = "done"

\* C17: createNewDataFrame, updateExistingDataFrame, createNewColumn and
\* updateExistingColumn raise every name or value-source validation error
\* before issuing any backend request.
C17_ValidationBeforeRequests ==
    ServiceDone => /\ BadName => op.invalid
                   /\ op.invalid => requests = <<>>

\* C17 (amended): every name validation error is raised before any backend
\* request; a value-source validation error is raised before any request that
\* writes, and the only requests that can precede it are the GETs by which
\* updateExistingColumn reads the current column.
C17_ValidationBeforeWrites ==
    ServiceDone =>
        /\ BadName => op.invalid /\ requests = <<>>
        /\ op.invalid =>
              /\ \A i \in DOMAIN requests :
                    /\ requests[i].method = "GET"
                    /\ requests[i].resource \in { "attributes/{id}",
                                                  "attributes/{id}/attributes" }
              /\ requests # <<>> => op.kind = "updateColumn"

\* updateExistingColumn threw a value-source validation error after it read
\* the current column
C17_Witness ==
    /\ ServiceDone /\ op.invalid
    /\ op.kind = "updateColumn"
    /\ op.input.valueSource = " "
    /\ Len(requests) = 2

----------------------------------------------------------------------------
\* Tag Search store: open and close

\* C19: close() cancels the pending operation of the Tag Search Service (no
\* timer, no abort controller and no pending resolver are left), resets
\* query, results, status, error, hasMore, selectedIndex and the stored
\* callbacks to their initial values, and sets isOpen to false.
C19_CloseResets ==
    [][ StoreClose =>
          /\ debounceTimer' = 0 /\ abortController' = 0 /\ pendingResolve' = 0
          /\ isOpen' = FALSE
          /\ query' = <<>> /\ results' = <<>> /\ status' = "idle" /\ error' = Null
          /\ hasMore' = FALSE /\ selectedIndex' = 0
          /\ context' = NoContext ]_vars

\* what close() does reset: C19 without hasMore and selectedIndex
CloseResetsAssigned ==
    [][ StoreClose =>
          /\ debounceTimer' = 0 /\ abortController' = 0 /\ pendingResolve' = 0
          /\ isOpen' = FALSE
          /\ query' = <<>> /\ results' = <<>> /\ status' = "idle" /\ error' = Null
          /\ context' = NoContext ]_vars

\* C20: open(ctx), in whatever state it is called, sets isOpen, stores the
\* callbacks of ctx, empties results, clears error and hasMore, sets
\* selectedIndex to 0 and query to the initial query ('' without one); with an
\* initial query it starts a search for it at once, so that status is
\* 'loading' when the query has minChars characters and a service search for
\* it has been issued, and 'idle' otherwise. No state is terminal: open can
\* always be called again.
C20_OpenResets ==
    /\ [][ \A q \in Queries \cup {<<>>}, callbacks \in {0, 1} :
             StoreOpen(q, callbacks) =>
                /\ isOpen' = TRUE
                /\ context' = Context(callbacks, q)
                /\ query' = q
                /\ results' = <<>> /\ error' = Null /\ hasMore' = FALSE
                /\ selectedIndex' = 0
                /\ status' = IF Delegates(q) THEN "loading" ELSE "idle"
                /\ IF Delegates(q)
                   THEN /\ Len(searches') = Len(searches) + 1
                        /\ searches'[Len(searches')].query = q
                        /\ searches'[Len(searches')].caller = "store"
                   ELSE Len(searches') = Len(searches) ]_vars
    /\ [](Idle => ENABLED StoreOpen(<<>>, 0))

\* the store was opened again, with callbacks and an initial query, after a
\* search of another query had filled it with results
C20_Witness ==
    /\ isOpen
    /\ context = Context(1, <<"a", "b">>)
    /\ Len(searches) = 2
    /\ searches[1].query = <<"A", "b">>
    /\ searches[1].storeDone
    /\ searches[1].outer.state = "resolved"
    /\ searches[1].outer.result.tags # <<>>
    /\ searches[2].query = <<"a", "b">>
    /\ status = "loading" /\ results = <<>> /\ selectedIndex = 0

----------------------------------------------------------------------------
\* Tag Search store: selection

\* C21: selectTag(tag) calls the onSelect callback of the session, when there
\* is one, exactly once, with that tag and while the store is still open;
\* afterwards isOpen is false and status is 'idle'.
C21_SelectTagCallsBack ==
    [][ \A tag \in 1..Limit :
          SelectTag(tag) =>
             /\ invoked' = IF context.callbacks # 0
                           THEN Append(invoked, [fn |-> "onSelect", tag |-> tag, open |-> TRUE])
                           ELSE invoked
             /\ isOpen' = FALSE
             /\ status' = "idle" ]_vars

\* the callback was called once, for a tag chosen while a search was loading
C21_Witness ==
    /\ invoked = << [fn |-> "onSelect", tag |-> 1, open |-> TRUE] >>
    /\ ~isOpen /\ status = "idle"
    /\ Len(searches) = 1
    /\ ~searches[1].storeDone

\* selectedIndex is an index of results
ValidIndex == selectedIndex >= 0 /\ selectedIndex < Len(results)

\* C22: selectCurrent() is selectTag(results[selectedIndex]) when
\* selectedIndex is an index of results; when there is no tag at the current
\* index it changes no state and calls no callback.
C22_SelectCurrent ==
    [][ SelectCurrent =>
          IF ValidIndex THEN SelectTag(results[selectedIndex + 1])
          ELSE UNCHANGED vars ]_vars

\* the second of two results was selected by selectCurrent
C22_Witness ==
    /\ invoked = << [fn |-> "onSelect", tag |-> 2, open |-> TRUE] >>
    /\ ~isOpen
    /\ selectedIndex = 1

\* C23: with n >= 1 results and selectedIndex i in [0, n), selectDown() sets
\* selectedIndex to (i + 1) mod n and selectUp() sets it to (i - 1) mod n and
\* nothing else changes, so that selectUp after selectDown restores i; with no
\* results both change nothing.
C23_SelectionWraps ==
    /\ [][ \A delta \in {-1, 1} :
             MoveSelection(delta) =>
                /\ (Len(results) >= 1 /\ ValidIndex) =>
                      selectedIndex' = (selectedIndex + delta + Len(results)) % Len(results)
                /\ Len(results) = 0 => selectedIndex' = selectedIndex
                /\ UNCHANGED <<svcVars, mapVars, isOpen, query, results, status, error,
                               hasMore, context, invoked>> ]_vars
    /\ []( /\ ValidIndex =>
                /\ moveSelection(moveSelection(Store, 1), -1) = Store
                /\ moveSelection(moveSelection(Store, -1), 1) = Store
           /\ Len(results) = 0 =>
                /\ moveSelection(Store, 1) = Store
                /\ moveSelection(Store, -1) = Store )

\* the selection was moved to the last of the results of a finished search
C23_Witness ==
    /\ status = "success"
    /\ Len(results) = Limit
    /\ selectedIndex = Limit - 1

----------------------------------------------------------------------------
\* Short queries

\* C24: store.search(q) with q empty or shorter than minChars sets results
\* to [], status to 'idle', error to null and hasMore to false at once: status
\* is not 'loading' after it, and the service's search is not called (no
\* search is issued, no timer armed, no request made, no job queued).
C24_ShortQueryStore ==
    [][ \A q \in { <<>>, <<"a">> } :
          StoreSearch(q) =>
             /\ query' = q
             /\ results' = <<>> /\ status' = "idle" /\ error' = Null /\ hasMore' = FALSE
             /\ Len(searches') = Len(searches)
             /\ UNCHANGED <<debounceTimer, abortController, pendingResolve, calls,
                            microtasks, cache>> ]_vars

\* a short query was searched while the store was showing results
C24_Witness ==
    /\ isOpen
    /\ query = <<"a">>
    /\ status = "idle" /\ results = <<>>
    /\ Len(searches) = 1
    /\ searches[1].storeDone
    /\ searches[1].outer.state = "resolved"
    /\ searches[1].outer.result.tags # <<>>

\* the queries the service answers without searching
ShortQueries == { q \in Queries \cup { <<>> } : Len(q) = 0 \/ Len(q) < minChars }

\* the calls of apiSearchTags made for search i
CallsOf(cs, i) == { k \in 1..Len(cs) : cs[k].id = i }

\* C25: service.search(q) with q empty or shorter than minChars resolves
\* with { tags: [], hasMore: false }, arms no debounce timer and calls no
\* backend: in every state, for the search it would start, and for every
\* search it did start, however long ago.
C25_ShortQueryService ==
    /\ \A q \in ShortQueries :
          LET S  == search(Svc, q, "direct")
              id == Len(S.searches)
          IN /\ id = Len(searches) + 1
             /\ S.searches[id].outer = Resolved(EmptyResult)
             /\ S.searches[id].timer = "none"
             /\ S.searches[id].request = "none"
             /\ S.debounceTimer = 0 /\ S.pendingResolve = 0 /\ S.abortController = 0
             /\ S.calls = calls
    /\ \A i \in 1..Len(searches) :
          searches[i].query \in ShortQueries =>
             /\ searches[i].outer = Resolved(EmptyResult)
             /\ searches[i].timer = "none"
             /\ searches[i].request = "none"
             /\ CallsOf(calls, i) = {}
             /\ debounceTimer # i /\ pendingResolve # i /\ abortController # i

\* a short query was searched while a request was in flight, and the backend
\* has been called since for a later search
C25_Witness ==
    /\ Len(searches) = 3
    /\ searches[1].request = "aborted"
    /\ searches[2].query = <<"a">>
    /\ searches[2].outer = Resolved(EmptyResult)
    /\ CallsOf(calls, 3) # {}


----------------------------------------------------------------------------
\* Cancelling

\* a debounce timer that has not fired, or a request that has not settled
PendingIn(S) ==
    \E i \in 1..Len(S.searches) :
       S.searches[i].timer = "armed" \/ S.searches[i].request = "inflight"

\* C26: service.cancel() is idempotent and safe with nothing pending. Called
\* when no debounce timer and no request is pending it settles no promise,
\* clears no timer, aborts nothing and queues nothing (all it does is drop the
\* handle of a timer that has fired); after any call of it nothing is
\* pending, and a second call in a row changes nothing at all.
C26_CancelIdempotent ==
    Idle =>
       /\ ~PendingIn(Svc) => cancel(Svc) = [Svc EXCEPT !.debounceTimer = 0]
       /\ ~PendingIn(cancel(Svc))
       /\ cancel(cancel(Svc)) = cancel(Svc)

\* cancel() has cancelled a debounced search and aborted nothing, and the
\* service is at rest, where a second cancel() may follow
C26_Witness ==
    /\ Idle
    /\ Len(searches) = 2
    /\ searches[1].request = "settled" /\ searches[1].outer.state = "resolved"
    /\ searches[2].timer = "cleared" /\ searches[2].outer = Resolved(EmptyResult)
    /\ debounceTimer = 0 /\ pendingResolve = 0 /\ abortController = 0


----------------------------------------------------------------------------
\* Initial identity resolution

\* C27: initializeAuth never throws and always ends with loading = false.
\* When getUserInfo failed with an Auth-kind error the user is the anonymous
\* identity (isAuthenticated false, sid '') and no error message is stored;
\* after any other failure of getUserInfo, or a failure to resolve the user
\* element, a (non-empty) error message is stored.
C27_InitializeAuthDegrades ==
    /\ initAuth.outcome # "threw"
    /\ initAuth.pc \in {"userinfo", "element"} => authStore.loading
    /\ initAuth.pc = "done" =>
         /\ initAuth.outcome = "returned"
         /\ ~authStore.loading
         /\ initAuth.userInfoError.kind = "Auth" =>
               /\ authStore.user = AnonymousUser
               /\ ~isAuthenticated(authStore) /\ authStore.user.sid = ""
               /\ authStore.error.isNull
         /\ (initAuth.userInfoError # NoError /\ initAuth.userInfoError.kind # "Auth") =>
               /\ ~authStore.error.isNull
               /\ authStore.error.message # ""
         /\ initAuth.elementFailed =>
               /\ ~authStore.error.isNull
               /\ authStore.error.prefix = "Failed to initialize user element: "
               /\ isAuthenticated(authStore)

\* a second initializeAuth met a 401 after the first had signed a user in
\* and failed to resolve the user element
C27_Witness ==
    /\ initAuth.pc = "done" /\ initAuth.n = 2
    /\ initAuth.userInfoError.kind = "Auth"
    /\ nOps = 1 /\ op.outcome = "threw"
    /\ authStore.user = AnonymousUser


----------------------------------------------------------------------------
\* The store while searches overlap

\* the store's search that no later open, search or close has superseded and
\* whose continuation has not run yet
LatestUnsettled(i) ==
    /\ searches[i].caller = "store"
    /\ ~searches[i].stale
    /\ ~searches[i].storeDone

\* C28 (as claimed): while the store is open and its most recent search (of
\* a query of at least minChars characters) has not settled, status is
\* 'loading'.
C28_LoadingUntilSettled ==
    \A i \in SearchIds : (isOpen /\ LatestUnsettled(i)) => status = "loading"


\* no search of the store is still current: the last of open, search and
\* close superseded them all and issued none
NoneCurrent == \A i \in SearchIds : searches[i].caller = "store" => searches[i].stale

\* C29 (as claimed): from the return of close() (called directly or by
\* cancel() or selectTag()) to the next open() or search(), status is 'idle',
\* results is empty and error is null.
C29_ClosedStaysIdle ==
    (~isOpen /\ NoneCurrent) => (status = "idle" /\ results = <<>> /\ error = Null)


----------------------------------------------------------------------------
\* The selection

----------------------------------------------------------------------------
\* Batches: what a failed step does to the call

Creation == op.kind \in {"createDataFrame", "createColumn"}

FailedSteps == { k \in 1..Len(op.payload) : ~Succeeded(op.resp[k]) }

\* C31: every step of a creation batch lists the step before it in ParentIds,
\* and createDataFrame and createColumn, with or without the metadata steps,
\* never return when a step of their batch failed or did not run: they throw
\* then, and when they return every step has succeeded.
C31_CreationAllOrNothing ==
    (Creation /\ op.hasResp) =>
       /\ \A k \in 2..Len(op.payload) : (k - 1) \in op.payload[k].ParentIds
       /\ FailedSteps # {} => (op.pc = "done" /\ op.outcome = "threw")
       /\ op.outcome = "returned" => FailedSteps = {}

\* a createDataFrame with metadata whose batch failed at the first metadata
\* step, after the element and its permissions were written
C31_Witness ==
    /\ op.kind = "createDataFrame" /\ op.hasResp
    /\ Len(op.payload) = 7
    /\ FailedSteps = {5, 6, 7}
    /\ op.outcome = "threw"


\* C32 (as claimed): every batch a mapper submits ends with a GET read-back
\* step, and a call whose batch had a failed step ends by throwing.
C32_EveryBatchReadBack ==
    /\ op.payload # <<>> => op.payload[Len(op.payload)].Method = "GET"
    /\ (op.hasResp /\ FailedSteps # {}) => (op.pc = "done" => op.outcome = "threw")


----------------------------------------------------------------------------
\* User elements: what a returned element carries

\* the reserved metadata attributes of element id that hold a value with the
\* four fields of the user metadata, the sid being that of the caller
UserMetadataOf(id, sid) ==
    { x \in Attributes(af, id) :
        /\ x.name = metadataJson
        /\ x.hasValue /\ x.value.valid
        /\ { kv[1] : kv \in x.value.pairs } =
              {"sid", "identityType", "originalName", "createdAt"}
        /\ Field(x.value.pairs, "sid") = sid }

\* C33 (as claimed): whenever getOrCreateUserElement returns an element id,
\* that element carries the reserved metadata attribute holding the user's
\* sid, identityType, originalName and createdAt.
C33_ReturnedElementHasMetadata ==
    (op.kind = "getOrCreateUserElement" /\ op.outcome = "returned") =>
        UserMetadataOf(op.result.id, op.input.sid) # {}


----------------------------------------------------------------------------
\* A short query after a debounced search

\* the store's last search was of a non-empty query shorter than minChars
\* (open and close leave query empty or at least minChars long)
ShortCurrent == Len(query) > 0 /\ Len(query) < minChars

\* C34 (as claimed): after store.search(q') with q' shorter than minChars the
\* store keeps status 'idle' with empty results until the next search or
\* open, and no backend call is issued for an earlier search.
C34_ShortQuerySilences ==
    /\ [](ShortCurrent => (status = "idle" /\ results = <<>>))
    /\ [][ShortCurrent => calls' = calls]_vars


----------------------------------------------------------------------------
\* Columns: what an update leaves alone

\* the i-th finished call is an updateColumn that returned, and the call
\* before it returned the same column as it then was
UpdateOfKnown(i) ==
    /\ i \in 2..Len(Calls)
    /\ Calls[i].call.kind = "updateColumn" /\ Calls[i].call.outcome = "returned"
    /\ Calls[i - 1].call.kind \in {"createColumn", "getColumn", "updateColumn"}
    /\ Calls[i - 1].call.outcome = "returned"
    /\ Calls[i - 1].call.result.id = Calls[i].call.target

\* C35 (as claimed): the Column updateColumn(id, input) returns has the
\* valueSourceType it had before when input.valueSourceType is omitted, and
\* the valueSource it had before when input.valueSource is omitted.
C35_UpdateKeepsUnmentioned ==
    \A i \in 1..Len(Calls) :
        UpdateOfKnown(i) =>
           /\ Calls[i].call.input.valueSourceType = Undefined =>
                 Calls[i].call.result.valueSourceType = Calls[i - 1].call.result.valueSourceType
           /\ Calls[i].call.input.valueSource = Undefined =>
                 Calls[i].call.result.valueSource = Calls[i - 1].call.result.valueSource


----------------------------------------------------------------------------
\* Every search settles

\* C36: every promise service.search returned eventually settles (resolved
\* or rejected), whatever calls of search() and cancel() follow it, given
\* that armed timers fire, requests in flight settle and queued jobs run.
C36_EverySearchSettles ==
    \A i \in 1..MaxSearches :
        (i <= Len(searches)) ~> (i <= Len(searches) /\ searches[i].outer.state # "pending")

\* three searches have settled: one aborted in flight, one cancelled in its
\* debounce window, one answered by the backend
C36_Witness ==
    /\ Len(searches) = 3
    /\ \A i \in 1..3 : searches[i].outer.state # "pending"
    /\ searches[1].request = "aborted"
    /\ searches[2].timer = "cleared"
    /\ searches[3].request = "settled"


----------------------------------------------------------------------------
\* User elements: callers that race

\* caller c has submitted the creation batch
Submitted(c) == \E k \in 1..Len(racers[c].sent) : racers[c].sent[k] = BatchRequest

\* the lookup of caller c has been answered (target is the root it looked in)
LookedUp(c) == racers[c].op.pc \in {"batch", "done"} /\ racers[c].op.target # 0

\* C37: getOrCreateUserElement decides from its own lookup alone. A call
\* submits the creation request exactly when its lookup failed or saw no
\* element of the name, and returns the element found otherwise, whatever
\* another call is doing: so two calls for one new identity that both looked
\* before either created both submit a creation request.
C37_CreateAfterOwnLookup ==
    \A c \in Racers :
        /\ Submitted(c) => (racers[c].op.lookupFailed \/ ~racers[c].existed)
        /\ (LookedUp(c) /\ ~racers[c].op.lookupFailed /\ ~racers[c].existed)
              => Submitted(c)
        /\ (LookedUp(c) /\ ~racers[c].op.lookupFailed /\ racers[c].existed)
              => (racers[c].op.outcome = "returned" /\ ~Submitted(c))

\* two callers of one identity both saw no element and both created one
C37_Witness ==
    /\ \A c \in {1, 2} : /\ racers[c].op.outcome = "returned"
                          /\ Submitted(c) /\ ~racers[c].existed
                          /\ ~racers[c].op.lookupFailed
    /\ racers[1].op.input.name = racers[2].op.input.name
    /\ racers[1].op.result.id # racers[2].op.result.id
    /\ Cardinality({ e \in af.elems : e.parent = RootWebId
                                       /\ e.name = racers[1].op.input.name }) = 2


----------------------------------------------------------------------------
\* User elements: one per user

\* C38 (as claimed): two calls of getOrCreateUserElement for identities whose
\* names differ return different element identifiers.
C38_DifferentUsersDifferentElements ==
    \A i, j \in 1..Len(Calls) :
        (/\ Calls[i].call.kind = "getOrCreateUserElement"
         /\ Calls[j].call.kind = "getOrCreateUserElement"
         /\ Calls[i].call.outcome = "returned" /\ Calls[j].call.outcome = "returned"
         /\ Calls[i].call.input.originalName # Calls[j].call.input.originalName) =>
            Calls[i].call.result.id # Calls[j].call.result.id


----------------------------------------------------------------------------
\* Listing of created columns

\* C39 (as claimed): a column createNewColumn returned, for a name
\* validateColumnName accepts, is among the columns the listColumns of the
\* DataFrame that follows returns.
C39_CreatedColumnIsListed ==
    \A i \in 1..Len(Calls) :
        (/\ Calls[i].call.kind = "createColumn" /\ Calls[i].call.service
         /\ Calls[i].call.outcome = "returned"
         /\ i + 1 <= Len(Calls)
         /\ Calls[i + 1].call.kind = "listColumns"
         /\ Calls[i + 1].call.target = Calls[i].call.target
         /\ Calls[i + 1].call.outcome = "returned") =>
            \E k \in 1..Len(Calls[i + 1].call.list) :
                Calls[i + 1].call.list[k].id = Calls[i].call.result.id


============================================================================
